---------------------------- MODULE Spec2Model ----------------------------
(***************************************************************************)
(* State-machine model of the compute-shader engines of SpoutDXshaders:    *)
(*                                                                         *)
(*   spoutDX9shaders  - the DirectX 9 bridge (CopyDX11shareHandle), its    *)
(*                      copy dispatch and the GPU load governor;           *)
(*   spoutDXshaders   - the DirectX 11 effect engine (Copy, Blur, ...).    *)
(*                                                                         *)
(* Each object is a record of its members (dx9, dx11).  The state of the   *)
(* device context and of the GPU/PDH side that the members point into is   *)
(* kept beside it (ctx9, ctx11), and log9/log11 record what the last       *)
(* public call did (history variables, never read by the model of the      *)
(* code).  A member function is an operator from a state s = [e, x, o]     *)
(* (members, context, log) to the state it leaves; the outcome of every    *)
(* call into Direct3D / PDH that the code tests is an input `c` of the     *)
(* public call.                                                            *)
(*                                                                         *)
(* Encoding of pointers and handles: NULL is 0.  A source share handle is  *)
(* a number of Handles; the texture opened from it carries the same        *)
(* number.  m_srv holds the number of the texture its view was created on, *)
(* m_uav / m_dstTexture the number of an intermediate texture (DstIds).    *)
(* GPU utilisation is held in tenths of a percentage point (900 = 90 %),   *)
(* so that the 0.20 and 0.5 of ReadGPUtiming are the integers 2 and 5.     *)
(***************************************************************************)
EXTENDS Integers, Sequences, FiniteSets, TLC

VARIABLES dx9, ctx9, log9, dx11, ctx11, log11, grid

vars == <<dx9, ctx9, log9, dx11, ctx11, log11, grid>>

NULL == 0

(***************************************************************************)
(* Program constants                                                       *)
(***************************************************************************)
StabilizeFrames == 60      \* m_frameCount > 60
TimingPeriod == 120        \* m_frameCount % 120 == 0
ReadDelay == 8             \* (m_frameCount - m_frameEnd) >= 8
ExcessTimeMs == 4          \* m_GPUframeTime > 4.0
RecoveryDrop == 2          \* 0.20f, in tenths of a percentage point
RecoveryFloor == 5         \* 0.5f, in tenths of a percentage point
ThreadGroup == 16          \* numthreads(16, 16, 1), (w + 15) / 16
Half == 65536              \* unsigned int: 32 bits, held as two 16-bit halves

(***************************************************************************)
(* Bounds of the model                                                     *)
(***************************************************************************)
BridgeFrames == 2          \* frames dispatched under SpecBridge
GovFrames == 612           \* frames dispatched under SpecGov
MaxTimeMs == 5             \* largest GPU time a readback reports (ms)
MaxDevices == 2            \* class devices created
GridGroups == 2            \* thread groups per axis whose invocations are run
MaxCloses == 2             \* Release() calls on one device through CloseDX11
MaxTriggers == 2           \* InitializeGPUquery calls of one thread
RecoveryFrames == 860      \* frames dispatched under SpecRecovery
TimingFrames == 400        \* frames dispatched under SpecTiming
MaxMonitors == 8           \* GpuMonitor calls under SpecPublish

Max(a, b) == IF a > b THEN a ELSE b

(***************************************************************************)
(* The senders' shared textures: format and size behind each share handle. *)
(* Handles 1 and 2 are two textures of the same format and size, 3 is a    *)
(* DX9-compatible BGRA texture, 4 differs in size.                         *)
(***************************************************************************)
Handles == {1, 2, 3, 4}
DstIds == {1, 2, 3}

SourceDesc(h) ==
    CASE h = 1 -> [Format |-> "R8G8B8A8", Width |-> 1, Height |-> 1]
      [] h = 2 -> [Format |-> "R8G8B8A8", Width |-> 1, Height |-> 1]
      [] h = 3 -> [Format |-> "B8G8R8A8", Width |-> 1, Height |-> 1]
      [] OTHER -> [Format |-> "R8G8B8A8", Width |-> 2, Height |-> 1]

\* Requested sizes of the intermediate texture.
Sizes == {<<1, 1>>, <<2, 1>>}

\* The share handle IDXGIResource::GetSharedHandle reports for intermediate
\* texture d: distinct from every source handle.
DstShareHandle(d) == Cardinality(Handles) + d

\* GPU utilisation samples (tenths of a percentage point): idle, 0.3 %, 89 %,
\* 90 %.  No two differ by exactly RecoveryDrop, where the rounding of the
\* float 0.20f would decide the comparison.
UsageSamples == {0, 3, 890, 900}
GpuTimes == ExcessTimeMs..MaxTimeMs


(***************************************************************************)
(* Outcomes of the calls into Direct3D and PDH that one public call tests. *)
(*   fail : the one call that fails ("none": all succeed).  Every failure  *)
(*          but "sh" ends the public call, so one per call covers the      *)
(*          paths of the code.                                             *)
(*   q    : what GetData reports for the three timer queries while their   *)
(*          result is still in flight.                                     *)
(*   pdh, usage : PdhCollectQueryData / PdhGetFormattedCounterArray.       *)
(***************************************************************************)
Fails == {"none", "device", "open", "uav", "texture", "buffer", "compile", "qi", "sh"}

NotReady == [st |-> "inflight", disjoint |-> FALSE, ms |-> 0]
QueryOutcomes ==
    {NotReady} \cup [st : {"done"}, disjoint : {TRUE}, ms : {0}]
               \cup [st : {"done"}, disjoint : {FALSE}, ms : GpuTimes]
PdhOutcomes == {"ok", "collectfail", "formatfail"}

\* D3D_DRIVER_TYPE_HARDWARE, _WARP, _REFERENCE in the order of driverTypes[].
DriverTypes == <<"hardware", "warp", "reference">>
AllDrivers == {DriverTypes[i] : i \in 1..Len(DriverTypes)}

\* works: the driver types for which D3D11CreateDevice succeeds.
NoChoice == [fail |-> "none", q |-> NotReady, pdh |-> "ok", usage |-> 0, works |-> AllDrivers]

(***************************************************************************)
(* spoutDX9shaders: members after construction                             *)
(***************************************************************************)
AppDevice == [id |-> 1, owner |-> "app"]
NoDevice == [id |-> NULL, owner |-> "none"]
ClassDevice(n) == [id |-> n + 1, owner |-> "class"]
DeviceIds == 1..(MaxDevices + 1)
NoReleases == [d \in DeviceIds |-> 0]

ZeroParams9 == [width |-> 0, height |-> 0]

Dx9Init ==
    [ m_pd3dDevice |-> NoDevice, m_pImmediateContext |-> NoDevice,
      m_bClassdevice |-> FALSE,
      m_frameCount |-> 0, m_frameEnd |-> 0, m_GPUframeTime |-> 0,
      m_readPending |-> FALSE, bGPUex |-> FALSE, m_nGPUex |-> 0,
      m_GPUquery |-> NULL, m_gpuTimer |-> NULL,
      m_GPUhasPrimedSample |-> FALSE, m_GPUlatestUsage |-> 0,
      m_GPUpeakUsage |-> 0, m_GPUrecovery |-> 0,
      g_GPUInitOnce |-> FALSE, m_GPUQueryReady |-> FALSE,
      m_dstTexture |-> NULL, m_dstWidth |-> 0, m_dstHeight |-> 0,
      m_senderFormat |-> "UNKNOWN", m_senderWidth |-> 0, m_senderHeight |-> 0,
      m_senderHandle |-> NULL, m_bCopy |-> FALSE,
      m_uav |-> NULL, m_srv |-> NULL, m_CopyProgram |-> NULL,
      m_pShaderBuffer |-> NULL, m_oldParams |-> ZeroParams9 ]

\* The device context and what lies behind the engine's pointers:
\*   nDevices  class devices created so far
\*   lastDst   the intermediate texture created last
\*   cbuf      contents of the parameter buffer (Undefined until filled)
\*   csSrv, csUav  views bound to the compute stage
\*   q         state of the timer queries (idle, in flight, done)
\*   primer    position of the detached priming thread
\*   devRel, ctxRel  Release() calls the engine made on each device and
\*             on its immediate context
\*   destroyed the destructor has run
\*   madeOn    the device each resource the engine holds was created on
\*   spawns    priming threads started
\*   opens     PdhOpenQuery calls
\*   callers   the threads calling InitializeGPUquery: where each is in
\*             std::call_once and how many calls it has made
\*   sync      the accesses of the priming thread and of the calling thread
\*             to the members the thread publishes, statement by statement:
\*             next: statements of the thread executed; written: members
\*             it has written; pub: those written before the store to
\*             m_GPUQueryReady; mon: where the caller is in GpuMonitor;
\*             seen: its load of m_GPUQueryReady returned true; accessed:
\*             members the caller has read or written; unordered: those
\*             it accessed without a store-load edge after the thread's
\*             write; calls: GpuMonitor calls made; dangling: members
\*             the thread accessed through its captured `this` after the
\*             destructor had run
Undefined9 == [width |-> -1, height |-> -1]
IdleQuery == [st |-> "idle", disjoint |-> FALSE, ms |-> 0]
Callers == 1..3
SyncInit ==
    [ next |-> 0, written |-> {}, pub |-> {}, stored |-> FALSE,
      mon |-> "out", seen |-> FALSE, accessed |-> {}, unordered |-> {},
      calls |-> 0, dangling |-> {} ]
NotMade == [srv |-> NULL, uav |-> NULL, buf |-> NULL, prog |-> NULL, tex |-> NULL]
Ctx9Init ==
    [ nDevices |-> 0, lastDst |-> NULL, cbuf |-> Undefined9,
      csSrv |-> NULL, csUav |-> NULL, q |-> IdleQuery, primer |-> "none",
      devRel |-> NoReleases, ctxRel |-> NoReleases, destroyed |-> FALSE,
      spawns |-> 0, opens |-> 0, madeOn |-> NotMade, sync |-> SyncInit,
      callers |-> [t \in Callers |-> [pc |-> "out", n |-> 0]] ]

\* A completed timing readback, as the history keeps it.
NoReadback == [done |-> FALSE, excess |-> FALSE, issued |-> 0]

\* What the last public call did.  csCalled: it reached ComputeShader, with
\* m_frameCount, bGPUex and m_GPUrecovery as in frameAtEntry, exAtEntry and
\* recoveryAtEntry and with the width and height of payload; csVeto:
\* ComputeShader took the bypass of bGPUex.
\* rbPrev/rbLast (the two most recent completed timing readbacks) persist
\* from call to call.
Log9Init ==
    [ op |-> "none", h |-> NULL, ret |-> NULL,
      opened |-> FALSE, openFailed |-> FALSE, srcReleases |-> 0,
      texCreated |-> 0, released |-> 0,
      csCalled |-> FALSE, csRet |-> FALSE, csVeto |-> FALSE,
      frameAtEntry |-> 0, exAtEntry |-> FALSE, recoveryAtEntry |-> 0,
      pendingAtEntry |-> FALSE, payload |-> ZeroParams9,
      srvCreated |-> 0, uavCreated |-> 0, bufCreated |-> 0, uploads |-> 0,
      compiles |-> 0, binds |-> 0, dispatches |-> 0,
      dispSrv |-> NULL, dispUav |-> NULL, dispSrc |-> NULL, dispDst |-> NULL,
      timingStart |-> FALSE, timingEnd |-> FALSE,
      shExtract |-> FALSE, flushes |-> 0,
      samples |-> 0, sampled |-> FALSE, sample |-> 0,
      readback |-> "none", entered |-> FALSE, cleared |-> FALSE,
      rbPrev |-> NoReadback, rbLast |-> NoReadback,
      attempts |-> <<>>, driver |-> "none", works |-> {} ]

NewLog9(o, op) ==
    [Log9Init EXCEPT !.op = op, !.rbPrev = o.rbPrev, !.rbLast = o.rbLast]

Ret(s, v) == [s EXCEPT !.rv = v]

(***************************************************************************)
(* spoutDX9shaders: member functions                                       *)
(***************************************************************************)

\* ReleaseShaderResources: views, parameter buffer, comparison parameters
\* and the BGRA intermediate texture.
ReleaseShaderResources9(s) ==
    LET n == (IF s.e.m_uav # NULL THEN 1 ELSE 0)
           + (IF s.e.m_srv # NULL THEN 1 ELSE 0)
           + (IF s.e.m_pShaderBuffer # NULL THEN 1 ELSE 0)
           + (IF s.e.m_dstTexture # NULL THEN 1 ELSE 0)
    IN  [s EXCEPT !.e.m_uav = NULL, !.e.m_srv = NULL,
                  !.e.m_pShaderBuffer = NULL,
                  !.e.m_oldParams = ZeroParams9,
                  !.e.m_dstTexture = NULL,
                  !.x.madeOn.uav = NULL, !.x.madeOn.srv = NULL,
                  !.x.madeOn.buf = NULL, !.x.madeOn.tex = NULL,
                  !.o.released = @ + n,
                  !.rv = TRUE]

\* The end of CreateShaderResources: the buffer is mapped and filled when
\* the parameters differ from m_oldParams, which no statement assigns
\* except the reset of ReleaseShaderResources.
FillBuffer9(s, params) ==
    IF params # s.e.m_oldParams
    THEN [s EXCEPT !.x.cbuf = params, !.o.uploads = @ + 1]
    ELSE s

\* A faulty CreateShaderResources: the views are rebuilt on every call.
CreateShaderResources9_Rebuild(s, destTexture, sourceTexture, width, height, c) ==
    LET old == (IF s.e.m_srv # NULL THEN 1 ELSE 0) + (IF s.e.m_uav # NULL THEN 1 ELSE 0)
        s1 == IF sourceTexture # NULL
              THEN [s EXCEPT !.e.m_srv = sourceTexture, !.o.srvCreated = @ + 1,
                             !.x.madeOn.srv = s.e.m_pd3dDevice.id]
              ELSE s
        s2 == IF destTexture # NULL
              THEN [s1 EXCEPT !.e.m_uav = destTexture, !.o.uavCreated = @ + 1,
                              !.x.madeOn.uav = s.e.m_pd3dDevice.id,
                              !.o.released = @ + old]
              ELSE s1
        params == [width |-> width, height |-> height]
    IN  IF s2.e.m_pShaderBuffer = NULL /\ c.fail = "buffer"
        THEN Ret(s2, FALSE)
        ELSE LET s3 == IF s2.e.m_pShaderBuffer = NULL
                       THEN [s2 EXCEPT !.e.m_pShaderBuffer = 1,
                                       !.x.cbuf = Undefined9,
                                       !.x.madeOn.buf = s.e.m_pd3dDevice.id,
                                       !.o.bufCreated = @ + 1]
                       ELSE s2
                 s4 == FillBuffer9(s3, params)
             IN  Ret(s4, TRUE)

\* CreateShaderResources: a view is created only where none is held; the
\* buffer is created once; the parameters are compared with m_oldParams,
\* which this function never assigns.
CreateShaderResources9(s, destTexture, sourceTexture, width, height, c) ==
    LET s1 == IF s.e.m_srv = NULL /\ sourceTexture # NULL
              THEN [s EXCEPT !.e.m_srv = sourceTexture, !.o.srvCreated = @ + 1,
                             !.x.madeOn.srv = s.e.m_pd3dDevice.id]
              ELSE s
        s2 == IF s1.e.m_uav = NULL /\ destTexture # NULL
              THEN [s1 EXCEPT !.e.m_uav = destTexture, !.o.uavCreated = @ + 1,
                              !.x.madeOn.uav = s.e.m_pd3dDevice.id]
              ELSE s1
        params == [width |-> width, height |-> height]
    IN  IF s2.e.m_pShaderBuffer = NULL /\ c.fail = "buffer"
        THEN Ret(s2, FALSE)
        ELSE LET s3 == IF s2.e.m_pShaderBuffer = NULL
                       THEN [s2 EXCEPT !.e.m_pShaderBuffer = 1,
                                       !.x.cbuf = Undefined9,
                                       !.x.madeOn.buf = s.e.m_pd3dDevice.id,
                                       !.o.bufCreated = @ + 1]
                       ELSE s2
                 s4 == FillBuffer9(s3, params)
             IN  Ret(s4, TRUE)

\* The driver types that succeed under the choice c.
Works(c) == IF c.fail = "device" THEN {} ELSE c.works

\* The loop of CreateDX11device from driverTypes[i] on: D3D11CreateDevice
\* with that type, break on success, the next type otherwise; NULL when the
\* loop ends with a failure.  The device comes with its immediate context.
RECURSIVE TryDrivers(_, _, _)
TryDrivers(s, works, i) ==
    IF i > Len(DriverTypes)
    THEN [s EXCEPT !.dev = NoDevice]
    ELSE LET a == [s EXCEPT !.o.attempts = Append(@, DriverTypes[i])]
         IN  IF DriverTypes[i] \in works
             THEN [a EXCEPT !.dev = ClassDevice(s.x.nDevices + 1),
                            !.e.m_pImmediateContext = ClassDevice(s.x.nDevices + 1),
                            !.x.nDevices = @ + 1,
                            !.o.driver = DriverTypes[i]]
             ELSE TryDrivers(a, works, i + 1)

\* A faulty loop: it starts with the second driver type.
DriverLoop_SkipsHardware(s, works) == TryDrivers(s, works, 2)

\* for (driverTypeIndex = 0; driverTypeIndex < numDriverTypes; ...)
DriverLoop(s, works) == TryDrivers(s, works, 1)

\* CreateDX11device: hardware, WARP, reference; NULL when all three fail.
CreateDX11device9(s, c) ==
    DriverLoop([s EXCEPT !.o.works = Works(c)], Works(c))

OpenDX11_9(s, pDevice, pImmediateContext, c) ==
    IF s.e.m_pd3dDevice # NoDevice
    THEN Ret(s, TRUE)
    ELSE IF pDevice # NoDevice /\ pImmediateContext # NoDevice
         THEN Ret([s EXCEPT !.e.m_pd3dDevice = pDevice,
                            !.e.m_pImmediateContext = pImmediateContext], TRUE)
         ELSE LET s1 == CreateDX11device9(s, c)
                  s2 == [s1 EXCEPT !.e.m_pd3dDevice = s1.dev]
              IN  IF s2.e.m_pd3dDevice = NoDevice
                  THEN Ret(s2, FALSE)
                  ELSE Ret([s2 EXCEPT !.e.m_bClassdevice = TRUE], TRUE)

\* CloseDX11: while m_bClassdevice is set, ClearState, Flush and Release on
\* the context, Release on the device, both pointers null.  The flag is
\* left as it is.
CloseDX11_9(s) ==
    IF s.e.m_pd3dDevice = NoDevice
    THEN s
    ELSE IF s.e.m_bClassdevice
         THEN LET s1 == IF s.e.m_pImmediateContext # NoDevice
                        THEN [s EXCEPT !.x.ctxRel[s.e.m_pImmediateContext.id] = @ + 1,
                                       !.x.csSrv = NULL, !.x.csUav = NULL,
                                       !.e.m_pImmediateContext = NoDevice]
                        ELSE s
              IN  [s1 EXCEPT !.x.devRel[s.e.m_pd3dDevice.id] = @ + 1,
                             !.e.m_pd3dDevice = NoDevice]
         ELSE s

\* ~spoutDX9shaders
Destructor9(s) ==
    LET r == ReleaseShaderResources9(s)
        d == IF r.e.m_pd3dDevice # NoDevice /\ r.e.m_bClassdevice
             THEN CloseDX11_9(r)
             ELSE r
    IN  [d EXCEPT !.x.destroyed = TRUE]

\* OpenDX11shareHandle: FALSE for a null device or handle, and when
\* OpenSharedResource fails or raises; otherwise the texture is in s.tex.
OpenDX11shareHandle9(s, dxShareHandle, c) ==
    IF s.e.m_pd3dDevice = NoDevice \/ dxShareHandle = NULL
    THEN Ret([s EXCEPT !.tex = NULL, !.o.openFailed = TRUE], FALSE)
    ELSE IF c.fail = "open"
         THEN Ret([s EXCEPT !.tex = NULL, !.o.openFailed = TRUE], FALSE)
         ELSE Ret([s EXCEPT !.tex = dxShareHandle, !.o.opened = TRUE], TRUE)

\* An intermediate texture the engine holds no pointer or view to.
NewTexture(s) ==
    CHOOSE d \in DstIds : d # s.e.m_uav /\ d # s.x.lastDst

\* CreateDX11Texture(..., &m_dstTexture)
CreateDX11Texture9(s, width, height, c) ==
    IF width = 0 \/ height = 0
    THEN Ret(s, FALSE)
    ELSE IF s.e.m_pd3dDevice = NoDevice
         THEN Ret(s, FALSE)
         ELSE IF c.fail = "texture"
              THEN Ret(s, FALSE)
              ELSE LET d == NewTexture(s)
                   IN  Ret([s EXCEPT !.e.m_dstTexture = d,
                                     !.x.lastDst = d,
                                     !.x.madeOn.tex = s.e.m_pd3dDevice.id,
                                     !.o.texCreated = @ + 1], TRUE)

(***************************************************************************)
(* spoutDX9shaders: GPU load governor                                      *)
(***************************************************************************)

\* InitializeGPUquery: std::call_once spawns the detached priming thread.
InitializeGPUquery(s) ==
    IF s.e.g_GPUInitOnce
    THEN s
    ELSE [s EXCEPT !.e.g_GPUInitOnce = TRUE, !.x.primer = "spawned",
                   !.x.spawns = @ + 1]

\* The same call made by several threads at once, in the steps of
\* std::call_once.  A faulty entry first: a thread that finds the flag
\* unset runs the function although another thread is running it.
OnceEnter_NoExclusion(e, x, t) ==
    IF e.g_GPUInitOnce
    THEN [x EXCEPT !.callers[t].n = @ + 1]
    ELSE [x EXCEPT !.callers[t].pc = "active"]

\* Entry of thread t: return at once when the flag is set, wait while
\* another thread runs the function, run it otherwise.
OnceEnter(e, x, t) ==
    IF e.g_GPUInitOnce
    THEN [x EXCEPT !.callers[t].n = @ + 1]
    ELSE IF \E u \in Callers : x.callers[u].pc = "active"
         THEN [x EXCEPT !.callers[t].pc = "waiting"]
         ELSE [x EXCEPT !.callers[t].pc = "active"]

\* The function of the call: std::thread(...).detach().
OnceRun(x, t) ==
    [x EXCEPT !.primer = "spawned", !.spawns = @ + 1,
              !.callers[t] = [pc |-> "out", n |-> @.n + 1]]

\* A faulty GpuMonitor: leaves Throttled as soon as the sample is at or
\* below the peak, not the recovery level.
GpuMonitor_RecoversAtPeak(s, c) ==
    LET s1 == InitializeGPUquery(s)
    IN  IF ~s1.e.m_GPUQueryReady THEN s1
        ELSE IF s1.e.m_GPUquery = NULL THEN s1
        ELSE LET s2 == [s1 EXCEPT !.o.samples = @ + 1]
             IN  IF c.pdh = "collectfail" THEN s2
                 ELSE IF ~s2.e.m_GPUhasPrimedSample
                      THEN [s2 EXCEPT !.e.m_GPUhasPrimedSample = TRUE]
                 ELSE IF c.pdh = "formatfail" THEN s2
                 ELSE LET s3 == [s2 EXCEPT !.e.m_GPUlatestUsage = c.usage,
                                           !.o.sampled = TRUE,
                                           !.o.sample = c.usage]
                      IN  IF s3.e.m_GPUrecovery > 0
                             /\ s3.e.m_GPUlatestUsage <= s3.e.m_GPUpeakUsage
                          THEN [s3 EXCEPT !.e.m_GPUrecovery = 0,
                                          !.e.bGPUex = FALSE,
                                          !.o.cleared = TRUE]
                          ELSE s3

\* GpuMonitor: sample the system GPU utilisation; leave Throttled when the
\* sample is at or below the recovery level.
GpuMonitor(s, c) ==
    LET s1 == InitializeGPUquery(s)
    IN  IF ~s1.e.m_GPUQueryReady THEN s1
        ELSE IF s1.e.m_GPUquery = NULL THEN s1
        ELSE LET s2 == [s1 EXCEPT !.o.samples = @ + 1]
             IN  IF c.pdh = "collectfail" THEN s2
                 ELSE IF ~s2.e.m_GPUhasPrimedSample
                      THEN [s2 EXCEPT !.e.m_GPUhasPrimedSample = TRUE]
                 ELSE IF c.pdh = "formatfail" THEN s2
                 ELSE LET s3 == [s2 EXCEPT !.e.m_GPUlatestUsage = c.usage,
                                           !.o.sampled = TRUE,
                                           !.o.sample = c.usage]
                      IN  IF s3.e.m_GPUrecovery > 0
                             /\ s3.e.m_GPUlatestUsage <= s3.e.m_GPUrecovery
                          THEN [s3 EXCEPT !.e.m_GPUrecovery = 0,
                                          !.e.bGPUex = FALSE,
                                          !.o.cleared = TRUE]
                          ELSE s3

\* A faulty test: a measurement pending readback is not looked at.
TimingFrame_IgnoresPending(e) ==
    /\ e.m_frameCount > StabilizeFrames
    /\ e.m_frameCount % TimingPeriod = 0

\* if (!m_readPending && m_frameCount > 60 && m_frameCount % 120 == 0)
TimingFrame(e) ==
    /\ ~e.m_readPending
    /\ e.m_frameCount > StabilizeFrames
    /\ e.m_frameCount % TimingPeriod = 0

StartGPUtiming(s) ==
    LET s1 == IF s.e.m_frameCount = 0
              THEN [s EXCEPT !.e.m_gpuTimer = s.e.m_pd3dDevice.id]
              ELSE s
    IN  IF TimingFrame(s1.e)
        THEN [s1 EXCEPT !.x.q = IdleQuery, !.o.timingStart = TRUE]
        ELSE s1

EndGPUtiming(s) ==
    IF TimingFrame(s.e)
    THEN [s EXCEPT !.x.q = NotReady,
                   !.e.m_readPending = TRUE,
                   !.e.m_frameEnd = s.e.m_frameCount,
                   !.o.timingEnd = TRUE]
    ELSE s

\* max(m_GPUpeakUsage - 0.20f, 0.5f)
RecoveryLevel(peak) == Max(peak - RecoveryDrop, RecoveryFloor)

\* A faulty excess test: the streak counter is not reset on entering
\* Throttled.
ExcessCheck_KeepsStreak(s) ==
    IF s.e.m_GPUframeTime > ExcessTimeMs /\ s.e.m_GPUlatestUsage > 0
    THEN LET s1 == [s EXCEPT !.e.m_nGPUex = @ + 1]
         IN  IF s1.e.m_nGPUex > 1
             THEN [s1 EXCEPT !.e.m_GPUpeakUsage = s1.e.m_GPUlatestUsage,
                             !.e.m_GPUrecovery = RecoveryLevel(s1.e.m_GPUlatestUsage),
                             !.e.bGPUex = TRUE,
                             !.o.entered = TRUE]
             ELSE s1
    ELSE s

\* A faulty excess test: the utilisation sample is not looked at.
ExcessCheck_IgnoresUsage(s) ==
    IF s.e.m_GPUframeTime > ExcessTimeMs
    THEN LET s1 == [s EXCEPT !.e.m_nGPUex = @ + 1]
         IN  IF s1.e.m_nGPUex > 1
             THEN [s1 EXCEPT !.e.m_GPUpeakUsage = s1.e.m_GPUlatestUsage,
                             !.e.m_GPUrecovery = RecoveryLevel(s1.e.m_GPUlatestUsage),
                             !.e.bGPUex = TRUE,
                             !.e.m_nGPUex = 0,
                             !.o.entered = TRUE]
             ELSE s1
    ELSE s

\* The excess test of ReadGPUtiming and what it does on an excess frame.
ExcessCheck(s) ==
    IF s.e.m_GPUframeTime > ExcessTimeMs /\ s.e.m_GPUlatestUsage > 0
    THEN LET s1 == [s EXCEPT !.e.m_nGPUex = @ + 1]
         IN  IF s1.e.m_nGPUex > 1
             THEN [s1 EXCEPT !.e.m_GPUpeakUsage = s1.e.m_GPUlatestUsage,
                             !.e.m_GPUrecovery = RecoveryLevel(s1.e.m_GPUlatestUsage),
                             !.e.bGPUex = TRUE,
                             !.e.m_nGPUex = 0,
                             !.o.entered = TRUE]
             ELSE s1
    ELSE s

\* A faulty test: the queries are read as soon as a readback is pending.
ReadDue_NoDelay(e) == e.m_readPending

\* if (m_readPending && (m_frameCount - m_frameEnd) >= 8)
ReadDue(e) ==
    e.m_readPending /\ (e.m_frameCount - e.m_frameEnd) >= ReadDelay

\* ReadGPUtiming: 8 frames after the end timestamp, read the three queries;
\* a complete, non-disjoint result is a completed readback.
ReadGPUtiming(s, c) ==
    IF ReadDue(s.e)
    THEN LET got == IF s.x.q.st = "inflight" THEN c.q ELSE s.x.q
             s1 == [s EXCEPT !.x.q = got]
         IN  IF got.st = "done" /\ ~got.disjoint
             THEN LET s2 == [s1 EXCEPT !.e.m_GPUframeTime = got.ms]
                      s3 == GpuMonitor(s2, c)
                      s4 == ExcessCheck(s3)
                      ex == s3.e.m_GPUframeTime > ExcessTimeMs
                            /\ s3.e.m_GPUlatestUsage > 0
                  IN  [s4 EXCEPT !.e.m_readPending = FALSE,
                                 !.o.readback = IF ex THEN "excess" ELSE "normal",
                                 !.o.rbPrev = s.o.rbLast,
                                 !.o.rbLast = [done |-> TRUE, excess |-> ex,
                                               issued |-> s.e.m_frameEnd]]
             ELSE [s1 EXCEPT !.o.readback =
                                 IF got.st = "done" THEN "disjoint" ELSE "notready"]
    ELSE s

(***************************************************************************)
(* spoutDX9shaders: dispatch and bridge                                    *)
(***************************************************************************)

\* unsigned int arithmetic.  A value n is the pair <<n \div 2^16, n % 2^16>>
\* of its halves; the sum wraps modulo 2^32.
U32(n) == <<n \div Half, n % Half>>
Val(a) == a[1] * Half + a[2]
AddU32(a, k) ==
    LET lo == a[2] + k
    IN  <<(a[1] + (lo \div Half)) % Half, lo % Half>>
\* The quotient by a divisor of 2^16 (below 2^31 for d >= 2).
DivU32(a, d) == a[1] * (Half \div d) + (a[2] \div d)

\* A faulty group count: the quotient without the + 15.
Groups_Floor(n) == DivU32(n, ThreadGroup)

\* Dispatch((sourceWidth + 15) / 16, (sourceHeight + 15) / 16, 1)
Groups(n) == DivU32(AddU32(n, ThreadGroup - 1), ThreadGroup)

\* A faulty dispatch: the read-view is left bound.
BindDispatchUnbind9_KeepsSrv(s, destTexture, sourceTexture) ==
    LET bound == [s EXCEPT !.x.csSrv = IF s.e.m_srv # NULL THEN s.e.m_srv ELSE @,
                           !.x.csUav = s.e.m_uav,
                           !.o.binds = @ + 1]
        run == [bound EXCEPT !.o.dispatches = @ + 1,
                             !.o.dispSrv = bound.x.csSrv,
                             !.o.dispUav = bound.x.csUav,
                             !.o.dispSrc = sourceTexture,
                             !.o.dispDst = destTexture]
    IN  [run EXCEPT !.x.csUav = NULL]

\* Bind buffer, views and program, dispatch, unbind the views.
BindDispatchUnbind9(s, destTexture, sourceTexture) ==
    LET bound == [s EXCEPT !.x.csSrv = IF s.e.m_srv # NULL THEN s.e.m_srv ELSE @,
                           !.x.csUav = s.e.m_uav,
                           !.o.binds = @ + 1]
        run == [bound EXCEPT !.o.dispatches = @ + 1,
                             !.o.dispSrv = bound.x.csSrv,
                             !.o.dispUav = bound.x.csUav,
                             !.o.dispSrc = sourceTexture,
                             !.o.dispDst = destTexture]
    IN  [run EXCEPT !.x.csSrv = IF s.e.m_srv # NULL THEN NULL ELSE @,
                    !.x.csUav = NULL]

\* The share handle of the destination texture, after the dispatch.
ExtractShareHandle9(s, destTexture, shareHandle, c) ==
    IF ~shareHandle
    THEN [Ret(s, TRUE) EXCEPT !.o.flushes = @ + 1]
    ELSE IF c.fail = "qi"
         THEN Ret(s, FALSE)
         ELSE [Ret(s, TRUE) EXCEPT
                   !.sh = IF c.fail = "sh" THEN NULL ELSE DstShareHandle(destTexture),
                   !.o.shExtract = TRUE,
                   !.o.flushes = @ + 1]

\* A faulty ComputeShader: the bypass of bGPUex comes after the shader
\* resources have been created and filled.
ComputeShader9_LateBypass(s0, destTexture, sourceTexture, sourceWidth, sourceHeight, shareHandle, c) ==
    LET s == [s0 EXCEPT !.o.csCalled = TRUE,
                        !.o.frameAtEntry = s0.e.m_frameCount,
                        !.o.exAtEntry = s0.e.bGPUex,
                        !.o.pendingAtEntry = s0.e.m_readPending,
                        !.o.payload = [width |-> sourceWidth, height |-> sourceHeight],
                        !.o.recoveryAtEntry = s0.e.m_GPUrecovery]
    IN
    IF destTexture = NULL \/ s.e.m_pd3dDevice = NoDevice
    THEN Ret(s, FALSE)
    ELSE IF c.fail = "uav"
    THEN Ret(s, FALSE)
    ELSE LET r == CreateShaderResources9(s, destTexture, sourceTexture,
                                         sourceWidth, sourceHeight, c)
         IN  IF ~r.rv
             THEN Ret(r, FALSE)
             ELSE IF r.e.bGPUex
             THEN LET v == [r EXCEPT !.o.csVeto = TRUE]
                      m == IF v.e.m_frameCount % TimingPeriod = 0
                           THEN GpuMonitor(v, c) ELSE v
                  IN  Ret([m EXCEPT !.e.m_frameCount = @ + 1], FALSE)
             ELSE LET p == IF r.e.m_CopyProgram = NULL /\ c.fail # "compile"
                           THEN [r EXCEPT !.e.m_CopyProgram = 1, !.o.compiles = @ + 1,
                                          !.x.madeOn.prog = r.e.m_pd3dDevice.id]
                           ELSE r
                  IN  IF p.e.m_CopyProgram = NULL
                      THEN Ret(p, FALSE)
                      ELSE LET t1 == StartGPUtiming(p)
                               t2 == BindDispatchUnbind9(t1, destTexture, sourceTexture)
                               t3 == EndGPUtiming(t2)
                               t4 == ReadGPUtiming(t3, c)
                               t5 == [t4 EXCEPT !.e.m_frameCount = @ + 1]
                           IN  ExtractShareHandle9(t5, destTexture, shareHandle, c)

\* ComputeShader(m_CopyHLSL, destTexture, sourceTexture, ..., shareHandle)
\* shareHandle: whether the caller passed a place for the share handle.
ComputeShader9(s0, destTexture, sourceTexture, sourceWidth, sourceHeight, shareHandle, c) ==
    LET s == [s0 EXCEPT !.o.csCalled = TRUE,
                        !.o.frameAtEntry = s0.e.m_frameCount,
                        !.o.exAtEntry = s0.e.bGPUex,
                        !.o.pendingAtEntry = s0.e.m_readPending,
                        !.o.payload = [width |-> sourceWidth, height |-> sourceHeight],
                        !.o.recoveryAtEntry = s0.e.m_GPUrecovery]
    IN
    IF destTexture = NULL \/ s.e.m_pd3dDevice = NoDevice
    THEN Ret(s, FALSE)
    ELSE IF c.fail = "uav"       \* CheckUAVStoreSupport
    THEN Ret(s, FALSE)
    ELSE IF s.e.bGPUex
    THEN LET v == [s EXCEPT !.o.csVeto = TRUE]
             m == IF v.e.m_frameCount % TimingPeriod = 0 THEN GpuMonitor(v, c) ELSE v
         IN  Ret([m EXCEPT !.e.m_frameCount = @ + 1], FALSE)
    ELSE LET r == CreateShaderResources9(s, destTexture, sourceTexture,
                                         sourceWidth, sourceHeight, c)
         IN  IF ~r.rv
             THEN Ret(r, FALSE)
             ELSE LET p == IF r.e.m_CopyProgram = NULL /\ c.fail # "compile"
                           THEN [r EXCEPT !.e.m_CopyProgram = 1, !.o.compiles = @ + 1,
                                          !.x.madeOn.prog = r.e.m_pd3dDevice.id]
                           ELSE r
                  IN  IF p.e.m_CopyProgram = NULL
                      THEN Ret(p, FALSE)
                      ELSE LET t1 == StartGPUtiming(p)
                               t2 == BindDispatchUnbind9(t1, destTexture, sourceTexture)
                               t3 == EndGPUtiming(t2)
                               t4 == ReadGPUtiming(t3, c)
                               t5 == [t4 EXCEPT !.e.m_frameCount = @ + 1]
                           IN  ExtractShareHandle9(t5, destTexture, shareHandle, c)

\* A faulty conversion branch: the intermediate texture is recreated on
\* every call.
ConvertToBGRA_AlwaysAllocates(s, width, height, c) ==
    LET a == LET r0 == [s EXCEPT !.e.m_dstTexture = NULL,
                                 !.o.released =
                                     @ + (IF s.e.m_dstTexture # NULL THEN 1 ELSE 0)]
                 r1 == CreateDX11Texture9(r0, width, height, c)
             IN  [r1 EXCEPT !.e.m_dstWidth = width, !.e.m_dstHeight = height]
    IN  IF a.e.m_dstTexture # NULL /\ a.tex # NULL
        THEN LET r == ComputeShader9(a, a.e.m_dstTexture, a.tex,
                                     width, height, TRUE, c)
             IN  [r EXCEPT !.o.csRet = r.rv]
        ELSE a

\* The conversion branch of CopyDX11shareHandle: (re)create the BGRA
\* intermediate texture when there is none or the size differs, then copy.
ConvertToBGRA(s, width, height, c) ==
    LET a == IF s.e.m_dstTexture = NULL
                \/ width # s.e.m_dstWidth \/ height # s.e.m_dstHeight
             THEN LET r0 == [s EXCEPT !.e.m_dstTexture = NULL,
                                      !.o.released =
                                          @ + (IF s.e.m_dstTexture # NULL THEN 1 ELSE 0)]
                      r1 == CreateDX11Texture9(r0, width, height, c)
                  IN  [r1 EXCEPT !.e.m_dstWidth = width, !.e.m_dstHeight = height]
             ELSE s
    IN  IF a.e.m_dstTexture # NULL /\ a.tex # NULL
        THEN LET r == ComputeShader9(a, a.e.m_dstTexture, a.tex,
                                     width, height, TRUE, c)
             IN  [r EXCEPT !.o.csRet = r.rv]
        ELSE a

\* A faulty CopyDX11shareHandle: no passthrough shortcut, the shared
\* resource is opened on every call.
CopyDX11shareHandle_NoShortcut(s0, sourceShareHandle, width, height, c) ==
    IF sourceShareHandle = NULL
    THEN Ret(s0, NULL)
    ELSE
    LET s == IF s0.e.m_pd3dDevice = NoDevice
             THEN OpenDX11_9(s0, NoDevice, NoDevice, c)
             ELSE s0
    IN
    IF FALSE
    THEN Ret(s, sourceShareHandle)
    ELSE
    LET i == [s EXCEPT !.sh = sourceShareHandle]
        t == OpenDX11shareHandle9(i, sourceShareHandle, c)
    IN
    IF ~t.rv
    THEN Ret(t, t.sh)
    ELSE
    LET u == [t EXCEPT !.e.m_senderHandle = sourceShareHandle]
        desc == SourceDesc(u.tex)
        v == IF desc.Format # u.e.m_senderFormat
                \/ desc.Width # u.e.m_senderWidth
                \/ desc.Height # u.e.m_senderHeight
             THEN [ReleaseShaderResources9(u) EXCEPT
                       !.e.m_senderFormat = desc.Format,
                       !.e.m_senderWidth = desc.Width,
                       !.e.m_senderHeight = desc.Height]
             ELSE u
        w == IF v.e.m_bCopy \/ desc.Format # "B8G8R8A8"
             THEN ConvertToBGRA(v, width, height, c)
             ELSE v
        z == [w EXCEPT !.o.srcReleases = @ + 1]
    IN  Ret(z, z.sh)

\* A faulty CopyDX11shareHandle: the passthrough shortcut is taken even
\* when SetCopyTexture(true) asked for the copy.
CopyDX11shareHandle_ShortcutWhenForced(s0, sourceShareHandle, width, height, c) ==
    IF sourceShareHandle = NULL
    THEN Ret(s0, NULL)
    ELSE
    LET s == IF s0.e.m_pd3dDevice = NoDevice
             THEN OpenDX11_9(s0, NoDevice, NoDevice, c)
             ELSE s0
    IN
    IF sourceShareHandle = s.e.m_senderHandle
       /\ s.e.m_senderFormat = "B8G8R8A8"
    THEN Ret(s, sourceShareHandle)
    ELSE
    LET i == [s EXCEPT !.sh = sourceShareHandle]
        t == OpenDX11shareHandle9(i, sourceShareHandle, c)
    IN
    IF ~t.rv
    THEN Ret(t, t.sh)
    ELSE
    LET u == [t EXCEPT !.e.m_senderHandle = sourceShareHandle]
        desc == SourceDesc(u.tex)
        v == IF desc.Format # u.e.m_senderFormat
                \/ desc.Width # u.e.m_senderWidth
                \/ desc.Height # u.e.m_senderHeight
             THEN [ReleaseShaderResources9(u) EXCEPT
                       !.e.m_senderFormat = desc.Format,
                       !.e.m_senderWidth = desc.Width,
                       !.e.m_senderHeight = desc.Height]
             ELSE u
        w == IF v.e.m_bCopy \/ desc.Format # "B8G8R8A8"
             THEN ConvertToBGRA(v, width, height, c)
             ELSE v
        z == [w EXCEPT !.o.srcReleases = @ + 1]
    IN  Ret(z, z.sh)

\* A faulty release: the source texture is released only after a
\* conversion that completed.
ReleaseSource_AfterConversionOnly(s) ==
    IF s.o.csRet THEN [s EXCEPT !.o.srcReleases = @ + 1] ELSE s

\* sourceTexture->Release() at the end of the opened branch.
ReleaseSource(s) == [s EXCEPT !.o.srcReleases = @ + 1]

\* HANDLE CopyDX11shareHandle(sourceShareHandle, width, height)
CopyDX11shareHandle(s0, sourceShareHandle, width, height, c) ==
    IF sourceShareHandle = NULL
    THEN Ret(s0, NULL)
    ELSE
    LET s == IF s0.e.m_pd3dDevice = NoDevice
             THEN OpenDX11_9(s0, NoDevice, NoDevice, c)
             ELSE s0
    IN
    IF ~s.e.m_bCopy /\ sourceShareHandle = s.e.m_senderHandle
       /\ s.e.m_senderFormat = "B8G8R8A8"
    THEN Ret(s, sourceShareHandle)
    ELSE
    LET i == [s EXCEPT !.sh = sourceShareHandle]
        t == OpenDX11shareHandle9(i, sourceShareHandle, c)
    IN
    IF ~t.rv
    THEN Ret(t, t.sh)
    ELSE
    LET u == [t EXCEPT !.e.m_senderHandle = sourceShareHandle]
        desc == SourceDesc(u.tex)
        v == IF desc.Format # u.e.m_senderFormat
                \/ desc.Width # u.e.m_senderWidth
                \/ desc.Height # u.e.m_senderHeight
             THEN [ReleaseShaderResources9(u) EXCEPT
                       !.e.m_senderFormat = desc.Format,
                       !.e.m_senderWidth = desc.Width,
                       !.e.m_senderHeight = desc.Height]
             ELSE u
        w == IF v.e.m_bCopy \/ desc.Format # "B8G8R8A8"
             THEN ConvertToBGRA(v, width, height, c)
             ELSE v
        z == ReleaseSource(w)
    IN  Ret(z, z.sh)

(***************************************************************************)
(* spoutDX9shaders: the calls of the application and the priming thread    *)
(***************************************************************************)

\* The outcomes a call in state (e, x) can meet.  A failure that ends the
\* call before the dispatch leaves the timer queries and PDH unread; GetData
\* is read only when ReadGPUtiming is due, PDH only when GpuMonitor samples.
Choices9(e, x, fails, outcomes) ==
    LET late == {"none", "qi", "sh"}
        reads == /\ e.m_readPending /\ ~e.bGPUex
                 /\ (e.m_frameCount - e.m_frameEnd) >= ReadDelay
        monitors == /\ e.m_GPUQueryReady
                    /\ reads \/ (e.bGPUex /\ e.m_frameCount % TimingPeriod = 0)
        Q == IF reads /\ x.q.st = "inflight" THEN outcomes ELSE {NotReady}
        P == IF monitors
             THEN [pdh : {"ok"}, usage : UsageSamples]
                  \cup [pdh : {"collectfail", "formatfail"}, usage : {0}]
             ELSE {[pdh |-> "ok", usage |-> 0]}
        \* D3D11CreateDevice is called only without a device, D3DCompile only
        \* without a copy program.
        moot == (IF e.m_pd3dDevice # NoDevice THEN {"device"} ELSE {})
                \cup (IF e.m_CopyProgram # NULL THEN {"compile"} ELSE {})
    IN  {[fail |-> f, q |-> q, pdh |-> p.pdh, usage |-> p.usage, works |-> AllDrivers] :
            f \in fails \cap late, q \in Q, p \in P}
        \cup {[NoChoice EXCEPT !.fail = f] : f \in (fails \ late) \ moot}

Start9(op) ==
    [e |-> dx9, x |-> ctx9, o |-> NewLog9(log9, op),
     rv |-> FALSE, dev |-> NoDevice, tex |-> NULL, sh |-> NULL]

Done9(r) ==
    /\ dx9' = r.e
    /\ ctx9' = r.x
    /\ log9' = r.o
    /\ UNCHANGED <<dx11, ctx11, log11, grid>>

\* The application calls CopyDX11shareHandle(h, width, height).
Bridge(h, width, height, fails, outcomes, frames) ==
    /\ dx9.m_frameCount < frames
    /\ IF dx9.m_pd3dDevice = NoDevice THEN ctx9.nDevices < MaxDevices ELSE TRUE
    /\ \E c \in Choices9(dx9, ctx9, fails, outcomes) :
          LET s0 == Start9("CopyDX11shareHandle")
              s == [s0 EXCEPT !.o.h = h]
          IN  \E r \in {CopyDX11shareHandle(s, h, width, height, c)} :
                 Done9([r EXCEPT !.o.ret = r.rv])

SetCopyTexture(bCopy) ==
    /\ dx9.m_bCopy # bCopy
    /\ Done9([Start9("SetCopyTexture") EXCEPT !.e.m_bCopy = bCopy])

\* The application hands over its own device, or lets the engine create one.
OpenDX11Call9(pDevice) ==
    /\ dx9.m_pd3dDevice = NoDevice
    /\ ctx9.nDevices < MaxDevices
    /\ \E f \in {"none", "device"} :
          Done9(OpenDX11_9(Start9("OpenDX11"), pDevice, pDevice,
                           [NoChoice EXCEPT !.fail = f]))

CloseDX11Call9 ==
    /\ dx9.m_pd3dDevice # NoDevice
    /\ \A d \in DeviceIds : ctx9.devRel[d] < MaxCloses
    /\ Done9(CloseDX11_9(Start9("CloseDX11")))

ReleaseCall9 ==
    /\ log9.op # "ReleaseShaderResources"
    /\ Done9(ReleaseShaderResources9(Start9("ReleaseShaderResources")))

\* The application destroys the engine.
DestroyCall9 ==
    /\ ~ctx9.destroyed
    /\ Done9(Destructor9(Start9("~spoutDX9shaders")))

\* The detached thread of InitializeGPUquery: PdhOpenQuery, PdhAddCounter
\* and the first PdhCollectQueryData ...
PrimeOpen ==
    /\ ctx9.primer = "spawned"
    /\ \E ok \in BOOLEAN :
          ctx9' = [ctx9 EXCEPT !.primer = IF ok THEN "sleeping" ELSE "failed",
                               !.opens = @ + 1]
    /\ UNCHANGED <<dx9, log9, dx11, ctx11, log11, grid>>

\* ... and, after Sleep(100) and the second collect, the assignments that
\* end with m_GPUQueryReady.store(true).
PrimePublish ==
    /\ ctx9.primer = "sleeping"
    /\ dx9' = [dx9 EXCEPT !.m_GPUquery = 1,
                          !.m_GPUhasPrimedSample = FALSE,
                          !.m_GPUQueryReady = TRUE]
    /\ ctx9' = [ctx9 EXCEPT !.primer = "done"]
    /\ UNCHANGED <<log9, dx11, ctx11, log11, grid>>

\* The same thread and GpuMonitor statement by statement.
\* The members the thread hands over to the caller.
Published == {"m_GPUquery", "m_GPUcounter", "m_GPUlastSampleTime", "m_GPUhasPrimedSample"}

\* The statements of the thread after the first collect, in program order;
\* a faulty order first, which stores the flag before the assignments.
TaskOrder_StoreFirst ==
    <<"Sleep", "PdhCollectQueryData", "store",
      "m_GPUquery", "m_GPUcounter", "m_GPUlastSampleTime", "m_GPUhasPrimedSample">>

TaskOrder ==
    <<"Sleep", "PdhCollectQueryData",
      "m_GPUquery", "m_GPUcounter", "m_GPUlastSampleTime", "m_GPUhasPrimedSample", "store">>

\* One statement of the thread.  The thread is detached and holds the
\* captured `this`: the destructor does not stop it.  A statement on a
\* member of a destroyed engine goes through a dangling pointer: the write
\* lands in the storage the object had, or the process faults.
TaskStep ==
    /\ ctx9.primer = "sleeping"
    /\ LET i == ctx9.sync.next + 1
           st == TaskOrder[i]
           member == st \in Published \cup {"store"}
           y == IF st = "store"
                THEN [ctx9.sync EXCEPT !.next = i, !.stored = TRUE, !.pub = @ \cup ctx9.sync.written]
                ELSE [ctx9.sync EXCEPT !.next = i, !.written = @ \cup ({st} \cap Published)]
           z == IF ctx9.destroyed /\ member
                THEN [y EXCEPT !.dangling = @ \cup {st}]
                ELSE y
       IN  \E outcome \in IF ctx9.destroyed /\ member THEN {"lands", "fault"} ELSE {"lands"} :
              IF outcome = "fault"
              THEN /\ dx9' = dx9
                   /\ ctx9' = [ctx9 EXCEPT !.sync.dangling = @ \cup {st}, !.primer = "fault"]
              ELSE /\ dx9' = CASE st = "m_GPUquery" -> [dx9 EXCEPT !.m_GPUquery = 1]
                               [] st = "m_GPUhasPrimedSample" -> [dx9 EXCEPT !.m_GPUhasPrimedSample = FALSE]
                               [] st = "store" -> [dx9 EXCEPT !.m_GPUQueryReady = TRUE]
                               [] OTHER -> dx9
                   /\ ctx9' = [ctx9 EXCEPT !.sync = z,
                                           !.primer = IF i = Len(TaskOrder) THEN "done" ELSE @]
    /\ UNCHANGED <<log9, dx11, ctx11, log11, grid>>

\* An access of the calling thread to member v: it is ordered after the
\* thread's write when the caller has loaded true from m_GPUQueryReady
\* and the write preceded the store.
Access(y, v) ==
    [y EXCEPT !.accessed = @ \cup {v},
              !.unordered = IF y.seen /\ v \in y.pub THEN @ ELSE @ \cup {v}]

\* GpuMonitor up to `if (!m_GPUQueryReady.load()) return;`
MonitorEnter ==
    /\ ctx9.sync.mon = "out"
    /\ ctx9.sync.calls < MaxMonitors
    /\ LET s == InitializeGPUquery(Start9("GpuMonitor"))
           ready == s.e.m_GPUQueryReady
       IN  /\ dx9' = s.e
           /\ ctx9' = [s.x EXCEPT !.sync.calls = @ + 1,
                                  !.sync.seen = @ \/ ready,
                                  !.sync.mon = IF ready THEN "query" ELSE "out"]
    /\ UNCHANGED <<log9, dx11, ctx11, log11, grid>>

\* `if (!m_GPUquery) return;` and PdhCollectQueryData(m_GPUquery)
MonitorQuery ==
    /\ ctx9.sync.mon = "query"
    /\ \E pdh \in {"ok", "collectfail"} :
          ctx9' = [ctx9 EXCEPT !.sync = [Access(@, "m_GPUquery") EXCEPT !.mon =
                                  IF dx9.m_GPUquery = NULL \/ pdh = "collectfail"
                                  THEN "out" ELSE "primed"]]
    /\ UNCHANGED <<dx9, log9, dx11, ctx11, log11, grid>>

\* `if (!m_GPUhasPrimedSample) { m_GPUhasPrimedSample = true; return; }`
MonitorPrimed ==
    /\ ctx9.sync.mon = "primed"
    /\ dx9' = [dx9 EXCEPT !.m_GPUhasPrimedSample = TRUE]
    /\ ctx9' = [ctx9 EXCEPT !.sync = [Access(@, "m_GPUhasPrimedSample") EXCEPT !.mon =
                                IF dx9.m_GPUhasPrimedSample THEN "counter" ELSE "out"]]
    /\ UNCHANGED <<log9, dx11, ctx11, log11, grid>>

\* PdhGetFormattedCounterArray(m_GPUcounter, ...) and the rest of the call
MonitorCounter ==
    /\ ctx9.sync.mon = "counter"
    /\ ctx9' = [ctx9 EXCEPT !.sync = [Access(@, "m_GPUcounter") EXCEPT !.mon = "out"]]
    /\ UNCHANGED <<dx9, log9, dx11, ctx11, log11, grid>>

(***************************************************************************)
(* spoutDXshaders: the DirectX 11 effect engine                            *)
(***************************************************************************)

\* The application's textures: [Format, Width, Height] of each.
Textures11 == {1, 2}
TexDesc11(t) ==
    IF t = 1 THEN [Format |-> "R8G8B8A8", Width |-> 1, Height |-> 1]
             ELSE [Format |-> "B8G8R8A8", Width |-> 2, Height |-> 1]

\* A view: the texture it was created on and the format of its description.
NoView == [tex |-> NULL, fmt |-> "UNKNOWN"]
View(tex, fmt) == [tex |-> tex, fmt |-> fmt]

\* The effects the model dispatches, one of each calling shape (source and
\* no parameter, source and parameters, no source and parameters), keyed by
\* the HLSL source they pass to ComputeShader.
Effects11 == {"m_CopyHLSL", "m_BlurHLSL", "m_AdjustHLSL"}

Params11(values, width, height) ==
    [value1 |-> values[1], value2 |-> values[2], value3 |-> values[3],
     value4 |-> values[4], width |-> width, height |-> height]
ZeroParams11 == Params11(<<0, 0, 0, 0>>, 0, 0)
Undefined11 == Params11(<<0, 0, 0, 0>>, -1, -1)

Dx11Init ==
    [ m_pd3dDevice |-> NoDevice, m_pImmediateContext |-> NoDevice,
      m_bClassdevice |-> FALSE,
      m_uav |-> NoView, m_srv |-> NoView,
      program |-> [k \in Effects11 |-> NULL],
      m_pShaderBuffer |-> NULL, m_oldParams |-> ZeroParams11 ]

\* The device context and what lies behind the engine's pointers, as for
\* spoutDX9shaders.  fault: a Release() through a pointer to a device that
\* had been released before ended the process.  nPrograms: the compute
\* shader objects created so far; each CreateComputeShader gives a new one.
Ctx11Init ==
    [ nDevices |-> 0, cbuf |-> Undefined11, csSrv |-> NoView, csUav |-> NoView,
      devRel |-> NoReleases, ctxRel |-> NoReleases,
      fault |-> FALSE, destroyed |-> FALSE,
      nPrograms |-> 0 ]

\* What the last public call did.  repeat: it was an effect call with the
\* payload of the call before it, and that call was a successful effect.
\* nullUse: the call went through a null texture, device or context.
\* attempts: the driver types D3D11CreateDevice was called with, in order;
\* driver: the type of the device returned; works: the types that could
\* succeed in that call.
Log11Init ==
    [ op |-> "none", dest |-> NULL, source |-> NULL,
      ret |-> FALSE, payload |-> ZeroParams11, repeat |-> FALSE,
      released |-> 0, srvCreated |-> 0, uavCreated |-> 0, bufCreated |-> 0,
      uploads |-> 0, compiles |-> 0, dispatches |-> 0, flushes |-> 0,
      dispSrv |-> NoView, dispUav |-> NoView, dispProgram |-> NULL,
      nullUse |-> FALSE,
      attempts |-> <<>>, driver |-> "none", works |-> {} ]

ReleaseShaderResources(s) ==
    LET n == (IF s.e.m_uav # NoView THEN 1 ELSE 0)
           + (IF s.e.m_srv # NoView THEN 1 ELSE 0)
           + (IF s.e.m_pShaderBuffer # NULL THEN 1 ELSE 0)
    IN  [s EXCEPT !.e.m_uav = NoView, !.e.m_srv = NoView,
                  !.e.m_pShaderBuffer = NULL,
                  !.e.m_oldParams = ZeroParams11,
                  !.o.released = @ + n,
                  !.rv = TRUE]

\* A member function called through a null pointer: the state at that
\* point; what the call does from there on is not defined.
NullUse(s) == [s EXCEPT !.o.nullUse = TRUE, !.rv = FALSE]

\* A faulty fill: the buffer is filled only when it has just been created.
FillBuffer_OnCreationOnly(s, params) ==
    IF params # s.e.m_oldParams /\ s.x.cbuf = Undefined11
    THEN [s EXCEPT !.x.cbuf = params, !.o.uploads = @ + 1]
    ELSE s

\* The end of CreateShaderResources: Map, memcpy and Unmap when the
\* parameters differ from m_oldParams.
FillBuffer(s, params) ==
    IF params # s.e.m_oldParams
    THEN [s EXCEPT !.x.cbuf = params, !.o.uploads = @ + 1]
    ELSE s

\* CreateShaderResources: as in spoutDX9shaders, with the four values of
\* the effect in the parameters.
CreateShaderResources(s, destTexture, sourceTexture, destFormat, sourceFormat, width, height, values, c) ==
    IF /\ s.e.m_pd3dDevice = NoDevice
       /\ \/ s.e.m_srv = NoView /\ sourceTexture # NULL     \* pDevice->CreateShaderResourceView
          \/ s.e.m_uav = NoView /\ destTexture # NULL       \* pDevice->CreateUnorderedAccessView
          \/ s.e.m_pShaderBuffer = NULL                     \* pDevice->CreateBuffer
    THEN NullUse(s)
    ELSE
    LET s1 == IF s.e.m_srv = NoView /\ sourceTexture # NULL
              THEN [s EXCEPT !.e.m_srv = View(sourceTexture, sourceFormat),
                             !.o.srvCreated = @ + 1]
              ELSE s
        s2 == IF s1.e.m_uav = NoView /\ destTexture # NULL
              THEN [s1 EXCEPT !.e.m_uav = View(destTexture, destFormat),
                              !.o.uavCreated = @ + 1]
              ELSE s1
        params == Params11(values, width, height)
    IN  IF s2.e.m_pShaderBuffer = NULL /\ c.fail = "buffer"
        THEN Ret(s2, FALSE)
        ELSE LET s3 == IF s2.e.m_pShaderBuffer = NULL
                       THEN [s2 EXCEPT !.e.m_pShaderBuffer = 1,
                                       !.x.cbuf = Undefined11,
                                       !.o.bufCreated = @ + 1]
                       ELSE s2
                 s4 == FillBuffer(s3, params)
             IN  Ret(s4, TRUE)

CreateDX11device(s, c) ==
    DriverLoop([s EXCEPT !.o.works = Works(c)], Works(c))

OpenDX11(s, pDevice, pImmediateContext, c) ==
    IF s.e.m_pd3dDevice # NoDevice
    THEN Ret(s, TRUE)
    ELSE IF pDevice # NoDevice /\ pImmediateContext # NoDevice
         THEN Ret([s EXCEPT !.e.m_pd3dDevice = pDevice,
                            !.e.m_pImmediateContext = pImmediateContext], TRUE)
         ELSE LET s1 == CreateDX11device(s, c)
                  s2 == [s1 EXCEPT !.e.m_pd3dDevice = s1.dev]
              IN  IF s2.e.m_pd3dDevice = NoDevice
                  THEN Ret(s2, FALSE)
                  ELSE Ret([s2 EXCEPT !.e.m_bClassdevice = TRUE], TRUE)

\* CloseDX11: while m_bClassdevice is set, ClearState, Flush and Release on
\* the context, which is set to null, and Release on the device;
\* m_pd3dDevice keeps its value.  A Release() on a device released before
\* goes through a dangling pointer: ub is what that call does, counting as
\* one more release or ending the process.
CloseDX11(s, ub) ==
    IF s.e.m_pd3dDevice = NoDevice
    THEN s
    ELSE IF s.e.m_bClassdevice
         THEN LET s1 == IF s.e.m_pImmediateContext # NoDevice
                        THEN [s EXCEPT !.x.ctxRel[s.e.m_pImmediateContext.id] = @ + 1,
                                       !.x.csSrv = NoView, !.x.csUav = NoView,
                                       !.e.m_pImmediateContext = NoDevice]
                        ELSE s
                  id == s.e.m_pd3dDevice.id
              IN  IF s1.x.devRel[id] > 0 /\ ub = "fault"
                  THEN [s1 EXCEPT !.x.fault = TRUE]
                  ELSE [s1 EXCEPT !.x.devRel[id] = @ + 1]
         ELSE s

\* ~spoutDXshaders: the programs, the shader resources, CloseDX11.
Destructor11(s, ub) ==
    LET n == Cardinality({k \in Effects11 : s.e.program[k] # NULL})
        p == [s EXCEPT !.e.program = [k \in Effects11 |-> NULL],
                       !.o.released = @ + n]
        r == ReleaseShaderResources(p)
        d == CloseDX11(r, ub)
    IN  [d EXCEPT !.x.destroyed = TRUE]

\* Bind buffer, views and program, dispatch, unbind the views.
BindDispatchUnbind(s, shaderProgram) ==
    LET bound == [s EXCEPT !.x.csSrv = IF s.e.m_srv # NoView THEN s.e.m_srv ELSE @,
                           !.x.csUav = s.e.m_uav]
        run == [bound EXCEPT !.o.dispatches = @ + 1,
                             !.o.dispSrv = bound.x.csSrv,
                             !.o.dispUav = bound.x.csUav,
                             !.o.dispProgram = shaderProgram]
    IN  [run EXCEPT !.x.csSrv = IF s.e.m_srv # NoView THEN NoView ELSE @,
                    !.x.csUav = NoView]

\* A faulty ComputeShader: the program is compiled on every call.
ComputeShader_Recompiles(s, shaderSource, destTexture, sourceTexture, destFormat, sourceFormat, sourceWidth, sourceHeight, values, c) ==
    IF destTexture = NULL \/ s.e.m_pd3dDevice = NoDevice
    THEN Ret(s, FALSE)
    ELSE LET r == CreateShaderResources(s, destTexture, sourceTexture,
                                        destFormat, sourceFormat,
                                        sourceWidth, sourceHeight, values, c)
         IN  IF ~r.rv
             THEN Ret(r, FALSE)
             ELSE IF shaderSource \notin Effects11
             THEN Ret(r, FALSE)
             ELSE LET p == IF c.fail # "compile"
                           THEN [r EXCEPT !.e.program[shaderSource] = r.x.nPrograms + 1,
                                          !.x.nPrograms = @ + 1,
                                          !.o.compiles = @ + 1]
                           ELSE r
                      d == BindDispatchUnbind(p, p.e.program[shaderSource])
                  IN  Ret([d EXCEPT !.o.flushes = @ + 1], TRUE)

\* ComputeShader(shaderSource, destTexture, sourceTexture, ...)
ComputeShader(s, shaderSource, destTexture, sourceTexture, destFormat, sourceFormat, sourceWidth, sourceHeight, values, c) ==
    IF destTexture = NULL \/ s.e.m_pd3dDevice = NoDevice
    THEN Ret(s, FALSE)
    ELSE LET r == CreateShaderResources(s, destTexture, sourceTexture,
                                        destFormat, sourceFormat,
                                        sourceWidth, sourceHeight, values, c)
         IN  IF ~r.rv
             THEN Ret(r, FALSE)
             ELSE IF shaderSource \notin Effects11
             THEN Ret(r, FALSE)
             ELSE LET p == IF r.e.program[shaderSource] = NULL /\ c.fail # "compile"
                           THEN [r EXCEPT !.e.program[shaderSource] = r.x.nPrograms + 1,
                                          !.x.nPrograms = @ + 1,
                                          !.o.compiles = @ + 1]
                           ELSE r
                      d == BindDispatchUnbind(p, p.e.program[shaderSource])
                  IN  Ret([d EXCEPT !.o.flushes = @ + 1], TRUE)

\* UpdateResources(pDevice, pImmediateContext, destTexture, sourceTexture):
\* the result of OpenDX11 is not tested, and GetDesc is called on both
\* textures.
UpdateResources(s, pDevice, pImmediateContext, destTexture, sourceTexture, c) ==
    LET a == IF s.e.m_pd3dDevice = NoDevice
             THEN OpenDX11(s, pDevice, pImmediateContext, c)
             ELSE s
        b == ReleaseShaderResources(a)
    IN  IF ~b.rv
        THEN Ret(b, FALSE)
        ELSE IF destTexture = NULL \/ sourceTexture = NULL
        THEN NullUse(b)
        ELSE LET desc == TexDesc11(sourceTexture)
             IN  CreateShaderResources(b, destTexture, sourceTexture,
                                       TexDesc11(destTexture).Format, desc.Format,
                                       desc.Width, desc.Height, <<0, 0, 0, 0>>, c)

Copy(s, destTexture, sourceTexture, destFormat, sourceFormat, width, height, c) ==
    ComputeShader(s, "m_CopyHLSL", destTexture, sourceTexture,
                  destFormat, sourceFormat, width, height, <<0, 0, 0, 0>>, c)

Blur(s, destTexture, sourceTexture, sourceFormat, width, height, amount, c) ==
    ComputeShader(s, "m_BlurHLSL", destTexture, sourceTexture,
                  sourceFormat, sourceFormat, width, height, <<amount, 0, 0, 0>>, c)

Adjust(s, destTexture, sourceFormat, width, height, brightness, contrast, saturation, gamma, c) ==
    ComputeShader(s, "m_AdjustHLSL", destTexture, NULL,
                  sourceFormat, sourceFormat, width, height,
                  <<brightness, contrast, saturation, gamma>>, c)

(***************************************************************************)
(* spoutDXshaders: the calls of the application                            *)
(***************************************************************************)
\* The HLSL source each effect passes to ComputeShader.
ShaderOf(op) ==
    CASE op = "Copy" -> "m_CopyHLSL"
      [] op = "Blur" -> "m_BlurHLSL"
      [] op = "Adjust" -> "m_AdjustHLSL"

EffectOps == {"Copy", "Blur", "Adjust"}

Start11(op, dest, source, payload) ==
    [e |-> dx11, x |-> ctx11,
     o |-> [Log11Init EXCEPT
               !.op = op, !.dest = dest, !.source = source, !.payload = payload,
               !.repeat = /\ op \in EffectOps
                          /\ log11.op \in EffectOps /\ log11.ret
                          /\ log11.payload = payload],
     rv |-> FALSE, dev |-> NoDevice]

Done11(r) ==
    /\ dx11' = r.e
    /\ ctx11' = r.x
    /\ log11' = [r.o EXCEPT !.ret = r.rv]
    /\ UNCHANGED <<dx9, ctx9, log9, grid>>

\* The outcomes an effect call in state e can meet: CreateBuffer is called
\* only without a parameter buffer, D3DCompile only without the program.
Choices11(e, key) ==
    {[NoChoice EXCEPT !.fail = f] :
        f \in {"none"}
              \cup (IF e.m_pShaderBuffer = NULL THEN {"buffer"} ELSE {})
              \cup (IF key \in Effects11 /\ e.program[key] = NULL
                    THEN {"compile"} ELSE {})}

OpenDX11Call(pDevice) ==
    /\ dx11.m_pd3dDevice = NoDevice
    /\ ctx11.nDevices < MaxDevices
    /\ \E f \in IF pDevice = NoDevice THEN {"none", "device"} ELSE {"none"} :
          Done11(OpenDX11(Start11("OpenDX11", NULL, NULL, ZeroParams11),
                          pDevice, pDevice, [NoChoice EXCEPT !.fail = f]))

CopyCall(dest, source) ==
    LET d == TexDesc11(dest)
        s == TexDesc11(source)
    IN  \E c \in Choices11(dx11, "m_CopyHLSL") :
           Done11(Copy(Start11("Copy", dest, source,
                               Params11(<<0, 0, 0, 0>>, s.Width, s.Height)),
                       dest, source, d.Format, s.Format, s.Width, s.Height, c))

BlurCall(dest, source, amount) ==
    LET s == TexDesc11(source)
    IN  \E c \in Choices11(dx11, "m_BlurHLSL") :
           Done11(Blur(Start11("Blur", dest, source,
                               Params11(<<amount, 0, 0, 0>>, s.Width, s.Height)),
                       dest, source, s.Format, s.Width, s.Height, amount, c))

AdjustCall(dest, brightness) ==
    LET d == TexDesc11(dest)
    IN  \E c \in Choices11(dx11, "m_AdjustHLSL") :
           Done11(Adjust(Start11("Adjust", dest, NULL,
                                 Params11(<<brightness, 1, 1, 1>>, d.Width, d.Height)),
                         dest, d.Format, d.Width, d.Height,
                         brightness, 1, 1, 1, c))

UpdateResourcesCall(dest, source) ==
    /\ dx11.m_pd3dDevice # NoDevice
    /\ \E c \in Choices11(dx11, "none") :
          Done11(UpdateResources(
                     Start11("UpdateResources", dest, source, ZeroParams11),
                     dx11.m_pd3dDevice, dx11.m_pImmediateContext, dest, source, c))

ReleaseCall ==
    /\ log11.op # "ReleaseShaderResources"
    /\ Done11(ReleaseShaderResources(
                  Start11("ReleaseShaderResources", NULL, NULL, ZeroParams11)))

(***************************************************************************)
(* The dispatched grid and the effect shaders                              *)
(***************************************************************************)

\* The HLSL sources of the effects.
Shaders ==
    {"m_CopyHLSL", "m_FlipHLSL", "m_MirrorHLSL", "m_SwapHLSL", "m_BlurHLSL",
     "m_SharpenHLSL", "m_CasHLSL", "m_AdjustHLSL", "m_TempHLSL"}

\* sourceWidth and sourceHeight of a ComputeShader call: sizes around the
\* thread group dimension and at the upper end of unsigned int.
GridWidths ==
    {U32(1), U32(2), U32(16), U32(17), <<Half \div 2, 1>>,
     <<Half - 1, Half - 16>>, <<Half - 1, Half - 15>>, <<Half - 1, Half - 1>>}
GridHeights == {U32(1), U32(2), U32(17), <<Half - 1, Half - 15>>}

\* SV_DispatchThreadID of thread t of group g, on one axis.
DispatchThreadID(g, t) == g * ThreadGroup + t

\* CSMain: the coordinates of dst that the invocation with
\* SV_DispatchThreadID (x, y) writes, for the width and height of the
\* parameter buffer (uint arithmetic).
CSMain(shader, x, y, width, height) ==
    CASE shader \in {"m_CopyHLSL", "m_SwapHLSL"} ->
            IF x >= width \/ y >= height THEN {} ELSE {<<x, y>>}
      [] shader = "m_FlipHLSL" ->
            IF y > height \div 2 \/ x >= width
            THEN {}
            ELSE LET ypos == height - y      \* y <= height / 2: no wrap
                 IN  {<<x, ypos>>, <<x, y>>}
      [] shader = "m_MirrorHLSL" ->
            IF x >= width \div 2 \/ y >= height
            THEN {}
            ELSE LET xpos == width - x       \* x < width / 2: no wrap
                 IN  {<<xpos, y>>, <<x, y>>}
      [] OTHER -> {<<x, y>>}

\* grid: one ComputeShader dispatch and one invocation of its grid.
NoGrid ==
    [ phase |-> "none", shader |-> "none", width |-> U32(0), height |-> U32(0),
      gx |-> 0, gy |-> 0, tid |-> <<0, 0>>, writes |-> {} ]

InitGrid ==
    /\ dx9 = Dx9Init
    /\ ctx9 = Ctx9Init
    /\ log9 = Log9Init
    /\ dx11 = Dx11Init
    /\ ctx11 = Ctx11Init
    /\ log11 = Log11Init
    /\ grid \in {[NoGrid EXCEPT !.phase = "args", !.shader = k,
                                !.width = w, !.height = h] :
                    k \in Shaders, w \in GridWidths, h \in GridHeights}

\* m_pImmediateContext->Dispatch(...)
DispatchGrid ==
    /\ grid.phase = "args"
    /\ grid' = [grid EXCEPT !.phase = "dispatched",
                            !.gx = Groups(grid.width),
                            !.gy = Groups(grid.height)]
    /\ UNCHANGED <<dx9, ctx9, log9, dx11, ctx11, log11>>

\* One invocation of CSMain in the dispatched grid.
Invoke ==
    /\ grid.phase = "dispatched"
    /\ grid.gx <= GridGroups /\ grid.gy <= GridGroups
    /\ \E g \in (0..(grid.gx - 1)) \X (0..(grid.gy - 1)) :
       \E t \in (0..(ThreadGroup - 1)) \X (0..(ThreadGroup - 1)) :
          LET x == DispatchThreadID(g[1], t[1])
              y == DispatchThreadID(g[2], t[2])
          IN  grid' = [grid EXCEPT
                          !.phase = "invoked", !.tid = <<x, y>>,
                          !.writes = CSMain(grid.shader, x, y,
                                            Val(grid.width), Val(grid.height))]
    /\ UNCHANGED <<dx9, ctx9, log9, dx11, ctx11, log11>>

NextGrid ==
    \/ DispatchGrid
    \/ Invoke

SpecGrid == InitGrid /\ [][NextGrid]_vars

Init ==
    /\ dx9 = Dx9Init
    /\ ctx9 = Ctx9Init
    /\ log9 = Log9Init
    /\ dx11 = Dx11Init
    /\ ctx11 = Ctx11Init
    /\ log11 = Log11Init
    /\ grid = NoGrid

\* The bridge under every input and failure, for the first few frames.
NextBridge ==
    \/ \E h \in Handles, wh \in Sizes :
          Bridge(h, wh[1], wh[2], Fails, QueryOutcomes, BridgeFrames)
    \/ Bridge(NULL, 1, 1, {"none"}, QueryOutcomes, BridgeFrames)
    \/ \E b \in BOOLEAN : SetCopyTexture(b)

SpecBridge == Init /\ [][NextBridge]_vars

\* The governor: one sender converted frame after frame.
NextGov ==
    \/ Bridge(1, 1, 1, {"none", "uav"}, QueryOutcomes, GovFrames)
    \/ PrimeOpen
    \/ PrimePublish

SpecGov == Init /\ [][NextGov]_vars

\* The governor through a recovery and the measurements after it: every
\* call succeeds and every readback finds a result, short or long.
ReadyOutcomes == [st : {"done"}, disjoint : {FALSE}, ms : {0, MaxTimeMs}]
NextRecovery ==
    \/ Bridge(1, 1, 1, {"none"}, ReadyOutcomes, RecoveryFrames)
    \/ PrimeOpen
    \/ PrimePublish

SpecRecovery == Init /\ [][NextRecovery]_vars

\* The readback when the application keeps calling, every call succeeds,
\* the results of the queries are available at the first readback, valid
\* or disjoint, and no measurement is long enough to throttle.
AvailableOutcomes == [st : {"done"}, disjoint : BOOLEAN, ms : {0}]
KeepCalling == Bridge(1, 1, 1, {"none"}, AvailableOutcomes, TimingFrames)
NextTiming ==
    \/ KeepCalling
    \/ PrimeOpen
    \/ PrimePublish
SpecTiming == Init /\ [][NextTiming]_vars

\* The priming thread beside a caller of GpuMonitor, statement by
\* statement.
NextPublish ==
    \/ MonitorEnter
    \/ MonitorQuery
    \/ MonitorPrimed
    \/ MonitorCounter
    \/ PrimeOpen
    \/ TaskStep

SpecPublish == Init /\ [][NextPublish]_vars

\* The same with the destruction of the engine by the calling thread,
\* between two of its calls; the thread runs on.
NextTeardown ==
    \/ ~ctx9.destroyed /\ MonitorEnter
    \/ ~ctx9.destroyed /\ MonitorQuery
    \/ ~ctx9.destroyed /\ MonitorPrimed
    \/ ~ctx9.destroyed /\ MonitorCounter
    \/ ctx9.sync.mon = "out" /\ DestroyCall9
    \/ PrimeOpen
    \/ TaskStep

SpecTeardown == Init /\ [][NextTeardown]_vars

\* The effect engine: effects on the application's textures.
Next11 ==
    \/ \E pDevice \in {AppDevice, NoDevice} : OpenDX11Call(pDevice)
    \/ \E dest \in Textures11 : \E source \in Textures11 \ {dest} :
          CopyCall(dest, source)
    \/ \E dest \in Textures11 : \E source \in Textures11 \ {dest}, amount \in {0, 1} :
          BlurCall(dest, source, amount)
    \/ \E dest \in Textures11, brightness \in {0, 1} : AdjustCall(dest, brightness)
    \/ \E dest \in Textures11 : \E source \in Textures11 \ {dest} :
          UpdateResourcesCall(dest, source)
    \/ ReleaseCall

Spec11 == Init /\ [][Next11]_vars

\* Both engines of one application: conversions without failures beside
\* the effects on a device of the application.
NextViews ==
    \/ \E h \in {1, 4}, wh \in Sizes :
          Bridge(h, wh[1], wh[2], {"none"}, {NotReady}, BridgeFrames)
    \/ OpenDX11Call(AppDevice)
    \/ \E dest \in Textures11 : \E source \in Textures11 \ {dest} :
          CopyCall(dest, source)
    \/ \E dest \in Textures11 : AdjustCall(dest, 0)
    \/ ReleaseCall

SpecViews == Init /\ [][NextViews]_vars

(***************************************************************************)
(* The shader resources, called directly                                   *)
(***************************************************************************)

\* The return of a call: as computed, or, after a call through a null
\* pointer, the end of the process or a return of either value.
Return11(r) ==
    IF r.o.nullUse
    THEN \E out \in {"fault", "true", "false"} :
            Done11([r EXCEPT !.x.fault = (out = "fault"), !.rv = (out = "true")])
    ELSE Done11(r)

\* UpdateResources with any device pair and any textures, null ones too.
UpdateResourcesAnyCall(pDevice, dest, source) ==
    /\ ~ctx11.fault
    /\ ctx11.nDevices < MaxDevices
    /\ \E f \in {"none", "device", "buffer"} :
          Return11(UpdateResources(
                       Start11("UpdateResources", dest, source, ZeroParams11),
                       pDevice, pDevice, dest, source, [NoChoice EXCEPT !.fail = f]))

\* CreateShaderResources(m_pd3dDevice, dest, source, ...) called directly.
CreateShaderResourcesCall(dest, source) ==
    /\ ~ctx11.fault
    /\ \E f \in {"none", "buffer"} :
          Return11(CreateShaderResources(
                       Start11("CreateShaderResources", dest, source, ZeroParams11),
                       dest, source, "B8G8R8A8", "R8G8B8A8", 1, 1, <<0, 0, 0, 0>>,
                       [NoChoice EXCEPT !.fail = f]))

NextResources ==
    \/ \E pDevice \in {AppDevice, NoDevice} :
       \E dest \in Textures11 \cup {NULL}, source \in Textures11 \cup {NULL} :
          UpdateResourcesAnyCall(pDevice, dest, source)
    \/ \E dest \in Textures11 \cup {NULL}, source \in Textures11 \cup {NULL} :
          CreateShaderResourcesCall(dest, source)
    \/ ~ctx11.fault /\ ReleaseCall

SpecResources == Init /\ [][NextResources]_vars

(***************************************************************************)
(* InitializeGPUquery called from several threads                          *)
(***************************************************************************)

\* Thread t calls InitializeGPUquery and reaches std::call_once.
EnterCall(t) ==
    /\ ctx9.callers[t].pc = "out"
    /\ ctx9.callers[t].n < MaxTriggers
    /\ ctx9' = OnceEnter(dx9, ctx9, t)
    /\ UNCHANGED <<dx9, log9, dx11, ctx11, log11, grid>>

\* The thread that runs the function starts the priming thread; the flag
\* is set as the function returns.
RunCall(t) ==
    /\ ctx9.callers[t].pc = "active"
    /\ ctx9' = OnceRun(ctx9, t)
    /\ dx9' = [dx9 EXCEPT !.g_GPUInitOnce = TRUE]
    /\ UNCHANGED <<log9, dx11, ctx11, log11, grid>>

\* A waiting thread returns once the flag is set.
WakeCall(t) ==
    /\ ctx9.callers[t].pc = "waiting"
    /\ dx9.g_GPUInitOnce
    /\ ctx9' = [ctx9 EXCEPT !.callers[t] = [pc |-> "out", n |-> @.n + 1]]
    /\ UNCHANGED <<dx9, log9, dx11, ctx11, log11, grid>>

NextPrime ==
    \/ \E t \in Callers : EnterCall(t)
    \/ \E t \in Callers : RunCall(t)
    \/ \E t \in Callers : WakeCall(t)
    \/ PrimeOpen
    \/ PrimePublish

SpecPrime == Init /\ [][NextPrime]_vars

(***************************************************************************)
(* Device creation with driver types that fail                             *)
(***************************************************************************)

\* OpenDX11() of either engine while D3D11CreateDevice succeeds for the
\* driver types of works only.
OpenDX11WorksCall9(works) ==
    /\ dx9.m_pd3dDevice = NoDevice
    /\ ctx9.nDevices < MaxDevices
    /\ Done9(OpenDX11_9(Start9("OpenDX11"), NoDevice, NoDevice,
                        [NoChoice EXCEPT !.works = works]))

OpenDX11WorksCall(works) ==
    /\ dx11.m_pd3dDevice = NoDevice
    /\ ctx11.nDevices < MaxDevices
    /\ Done11(OpenDX11(Start11("OpenDX11", NULL, NULL, ZeroParams11),
                       NoDevice, NoDevice, [NoChoice EXCEPT !.works = works]))

NextBackends ==
    \/ \E works \in SUBSET AllDrivers : OpenDX11WorksCall9(works)
    \/ CloseDX11Call9
    \/ \E works \in SUBSET AllDrivers : OpenDX11WorksCall(works)

SpecBackends == Init /\ [][NextBackends]_vars

(***************************************************************************)
(* The life of the device in both engines                                  *)
(***************************************************************************)
CloseDX11Call ==
    /\ \A d \in DeviceIds : ctx11.devRel[d] < MaxCloses
    /\ \E ub \in {"count", "fault"} :
          Done11(CloseDX11(Start11("CloseDX11", NULL, NULL, ZeroParams11), ub))

DestroyCall ==
    /\ ~ctx11.destroyed
    /\ \E ub \in {"count", "fault"} :
          Done11(Destructor11(Start11("~spoutDXshaders", NULL, NULL, ZeroParams11), ub))

\* OpenDX11, CloseDX11, the lazy acquisition of CopyDX11shareHandle and the
\* destructor, until the engine is destroyed or the process has ended.
NextDevice ==
    \/ /\ ~ctx9.destroyed /\ ~ctx11.fault
       /\ \E pDevice \in {AppDevice, NoDevice} : OpenDX11Call9(pDevice)
    \/ /\ ~ctx9.destroyed /\ ~ctx11.fault
       /\ CloseDX11Call9
    \/ /\ ~ctx9.destroyed /\ ~ctx11.fault
       /\ Bridge(1, 1, 1, {"none"}, {NotReady}, BridgeFrames)
    \/ /\ ~ctx11.fault
       /\ DestroyCall9
    \/ /\ ~ctx11.destroyed /\ ~ctx11.fault
       /\ \E pDevice \in {AppDevice, NoDevice} : OpenDX11Call(pDevice)
    \/ /\ ~ctx11.destroyed /\ ~ctx11.fault
       /\ CloseDX11Call
    \/ /\ ~ctx11.fault
       /\ DestroyCall

SpecDevice == Init /\ [][NextDevice]_vars

(***************************************************************************)
(* The bridge                                                              *)
(***************************************************************************)

\* C1: CopyDX11shareHandle(h, ...) with h non-null and a texture behind h
\* that is not B8G8R8A8 never returns h: it returns the share handle of a
\* BGRA intermediate texture, or null.
C1_NeverReturnsSourceHandle ==
    ( /\ log9.op = "CopyDX11shareHandle"
      /\ log9.h # NULL
      /\ SourceDesc(log9.h).Format # "B8G8R8A8" )
    => /\ log9.ret # log9.h
       /\ log9.ret \in {NULL} \cup {DstShareHandle(d) : d \in DstIds}

\* C2: when the shared resource cannot be opened (OpenSharedResource fails
\* or there is no device), CopyDX11shareHandle returns null.
C2_OpenFailureReturnsNull ==
    (log9.op = "CopyDX11shareHandle" /\ log9.openFailed) => log9.ret = NULL

\* C10: in a CopyDX11shareHandle call that dispatches the copy, the
\* read-view bound at the dispatch is a view of the texture opened from the
\* handle passed to that call.
C10_ReadViewOfThisCallsTexture ==
    (log9.op = "CopyDX11shareHandle" /\ log9.dispatches > 0)
    => log9.dispSrv = log9.h

(***************************************************************************)
(* The GPU load governor                                                   *)
(***************************************************************************)

\* C3: the governor enters Throttled only in a readback that is excess and
\* whose predecessor, the completed readback before it, was excess too: a
\* non-excess readback in between ends the streak.
C3_ThrottleNeedsTwoConsecutive ==
    log9.entered =>
        /\ log9.rbLast.done /\ log9.rbLast.excess
        /\ log9.rbPrev.done /\ log9.rbPrev.excess

\* C4: when a completed readback is excess and the completed readback
\* before it, issued one timing period earlier, was excess too, the call
\* leaves the governor Throttled, the peak equal to the utilisation last
\* sampled, and the streak counter at zero.
C4_TwoExcessThrottle ==
    ( /\ log9.readback = "excess"
      /\ log9.rbPrev.done /\ log9.rbPrev.excess
      /\ log9.rbLast.issued - log9.rbPrev.issued = TimingPeriod )
    => /\ dx9.bGPUex
       /\ log9.entered
       /\ dx9.m_GPUpeakUsage = dx9.m_GPUlatestUsage
       /\ (log9.sampled => dx9.m_GPUpeakUsage = log9.sample)
       /\ dx9.m_nGPUex = 0

C4_Witness ==
    /\ log9.readback = "excess"
    /\ log9.rbPrev.done /\ log9.rbPrev.excess
    /\ log9.rbLast.issued - log9.rbPrev.issued = TimingPeriod
    /\ log9.sampled
    /\ dx9.bGPUex
    /\ dx9.m_GPUpeakUsage = 900

\* C5: a ComputeShader call made while Throttled leaves Throttled exactly
\* when it falls on a frame that is a multiple of 120 and samples a
\* utilisation at or below the recovery level; otherwise the governor
\* stays Throttled.  A call entered outside Throttled that counts its
\* frame has dispatched.
C5_RecoveryClears ==
    /\ log9.csVeto =>
          ( ~dx9.bGPUex <=>
              /\ log9.frameAtEntry % TimingPeriod = 0
              /\ log9.sampled
              /\ log9.sample <= log9.recoveryAtEntry )
    /\ ( /\ log9.csCalled /\ ~log9.exAtEntry
         /\ dx9.m_frameCount = log9.frameAtEntry + 1 )
       => log9.dispatches = 1

C5_Witness ==
    /\ log9.csVeto
    /\ log9.frameAtEntry % TimingPeriod = 0
    /\ log9.sampled
    /\ log9.sample <= log9.recoveryAtEntry
    /\ log9.sample > 0
    /\ ~dx9.bGPUex

\* C6: while Throttled the recovery level is the peak less 20 percentage
\* points, and not below 50 % (peak 90 % -> 70 %, peak 60 % -> 50 %); in
\* tenths of a percentage point, max(peak - 200, 500).
C6_RecoveryIsPeakLess20 ==
    dx9.bGPUex => dx9.m_GPUrecovery = Max(dx9.m_GPUpeakUsage - 200, 500)

C8_SamePayloadNoUpload ==
    (log11.repeat /\ log11.ret /\ log11.released = 0) => log11.uploads = 0

\* C9: at the dispatch of an effect call the write-view bound is a view of
\* the destTexture passed to the call, and the read-view bound, if any, is
\* a view of the sourceTexture passed to the call.
C9_ViewsOfThisCallsTextures ==
    (log11.op \in EffectOps /\ log11.dispatches > 0)
    => /\ log11.dispUav.tex = log11.dest
       /\ (log11.dispSrv # NoView => log11.dispSrv.tex = log11.source)

(***************************************************************************)
(* Views, passthrough and the intermediate texture                         *)
(***************************************************************************)

\* C11: of two consecutive effect calls with the same destination and
\* source texture, and of two consecutive bridge conversions of the same
\* source handle with the same requested size, the second creates no
\* read-view and no write-view and releases nothing.
C11_SecondCallKeepsViews ==
    /\ [][ ( /\ log11.op \in EffectOps /\ log11'.op \in EffectOps
             /\ log11'.dest = log11.dest /\ log11'.source = log11.source )
           => ( /\ log11'.srvCreated = 0 /\ log11'.uavCreated = 0
                /\ log11'.released = 0 ) ]_<<dx11, ctx11, log11>>
    /\ [][ ( /\ log9.op = "CopyDX11shareHandle" /\ log9.dispatches > 0
             /\ log9'.op = "CopyDX11shareHandle" /\ log9'.dispatches > 0
             /\ log9'.h = log9.h
             /\ dx9'.m_dstWidth = dx9.m_dstWidth
             /\ dx9'.m_dstHeight = dx9.m_dstHeight )
           => ( /\ log9'.srvCreated = 0 /\ log9'.uavCreated = 0
                /\ log9'.released = 0 ) ]_<<dx9, ctx9, log9>>

\* A conversion that dispatched on views it did not create, beside an
\* effect that dispatched on views it did not create.
C11_Witness ==
    /\ log9.op = "CopyDX11shareHandle" /\ log9.dispatches > 0
    /\ log9.srvCreated = 0 /\ log9.uavCreated = 0 /\ log9.released = 0
    /\ log11.op = "Copy" /\ log11.dispatches > 0
    /\ log11.srvCreated = 0 /\ log11.uavCreated = 0

C15_NoWriteOutside ==
    grid.phase = "invoked" =>
        \A p \in grid.writes :
            /\ 0 <= p[1] /\ p[1] < Val(grid.width)
            /\ 0 <= p[2] /\ p[2] < Val(grid.height)

\* The ceiling of n / d, and of an unsigned int by a divisor of 2^16.
CeilDiv(n, d) == IF n % d = 0 THEN n \div d ELSE (n \div d) + 1
CeilDivU32(a, d) == a[1] * (Half \div d) + CeilDiv(a[2], d)

\* a <= b for unsigned ints.
LeqU32(a, b) == a[1] < b[1] \/ (a[1] = b[1] /\ a[2] <= b[2])

\* C16, as stated: for every unsigned 32-bit width and height >= 1 the
\* dispatch has ceil(width/16) x ceil(height/16) groups.
C16_GroupsAreCeiling ==
    grid.phase \in {"dispatched", "invoked"} =>
        /\ grid.gx = CeilDivU32(grid.width, ThreadGroup)
        /\ grid.gy = CeilDivU32(grid.height, ThreadGroup)

\* C16: for 1 <= width, height <= 2^32 - 16 the dispatch has
\* ceil(width/16) x ceil(height/16) groups of 16 x 16 threads; the grid
\* covers [0, width) x [0, height) with less than one group to spare, and
\* every pixel is the thread coordinate of exactly one invocation.
C16_GroupsAreCeilingBelowWrap ==
    ( /\ grid.phase \in {"dispatched", "invoked"}
      /\ LeqU32(grid.width, <<Half - 1, Half - ThreadGroup>>)
      /\ LeqU32(grid.height, <<Half - 1, Half - ThreadGroup>>) )
    => /\ grid.gx = CeilDivU32(grid.width, ThreadGroup)
       /\ grid.gy = CeilDivU32(grid.height, ThreadGroup)
       /\ (grid.gx <= GridGroups /\ grid.gy <= GridGroups) =>
             /\ ThreadGroup * grid.gx >= Val(grid.width)
             /\ ThreadGroup * (grid.gx - 1) < Val(grid.width)
             /\ ThreadGroup * grid.gy >= Val(grid.height)
             /\ ThreadGroup * (grid.gy - 1) < Val(grid.height)
             /\ \A x \in 0..(Val(grid.width) - 1) :
                   Cardinality({gt \in (0..(grid.gx - 1)) \X (0..(ThreadGroup - 1)) :
                                   DispatchThreadID(gt[1], gt[2]) = x}) = 1
             /\ \A y \in 0..(Val(grid.height) - 1) :
                   Cardinality({gt \in (0..(grid.gy - 1)) \X (0..(ThreadGroup - 1)) :
                                   DispatchThreadID(gt[1], gt[2]) = y}) = 1

\* The last pixel of a 17 x 17 copy, run by a thread of the second group
\* on each axis.
C16_Witness ==
    /\ grid.phase = "invoked" /\ grid.shader = "m_CopyHLSL"
    /\ grid.width = U32(17) /\ grid.height = U32(17)
    /\ grid.gx = 2 /\ grid.gy = 2
    /\ grid.tid = <<16, 16>>
    /\ grid.writes = {<<16, 16>>}

(***************************************************************************)
(* The life of the device                                                  *)
(***************************************************************************)

\* C17: neither engine ever calls Release() on a device or a context that
\* the application supplied: whatever the sequence of OpenDX11, CloseDX11,
\* lazy acquisitions and destruction, only class devices are released.
C17_ReleasesOnlyOwnDevice ==
    /\ ctx9.devRel[AppDevice.id] = 0 /\ ctx9.ctxRel[AppDevice.id] = 0
    /\ ctx11.devRel[AppDevice.id] = 0 /\ ctx11.ctxRel[AppDevice.id] = 0

\* C18: CloseDX11 of spoutDXshaders is idempotent: a class device and its
\* context are released at most once by any number of CloseDX11 calls and
\* exactly once when the destructor has run, no Release() goes through a
\* pointer to a released device, and CloseDX11 without a device releases
\* nothing.
C18_CloseIsIdempotent ==
    /\ \A d \in DeviceIds : ctx11.devRel[d] <= 1 /\ ctx11.ctxRel[d] <= 1
    /\ ~ctx11.fault
    /\ (ctx11.destroyed /\ dx11.m_pd3dDevice.owner = "class")
          => /\ ctx11.devRel[dx11.m_pd3dDevice.id] = 1
             /\ ctx11.ctxRel[dx11.m_pd3dDevice.id] = 1
    /\ (log11.op = "CloseDX11" /\ dx11.m_pd3dDevice = NoDevice)
          => /\ ctx11.devRel = NoReleases /\ ctx11.ctxRel = NoReleases
             /\ dx11 = Dx11Init

(***************************************************************************)
(* The program cache                                                       *)
(***************************************************************************)

\* C19: an effect call whose source does not compile returns false and
\* dispatches nothing; no dispatch is issued without a program, and no
\* program is kept for the key.
C19_CompileFailureSkipsDispatch ==
    log11.op \in EffectOps =>
        /\ log11.dispatches > 0 => log11.dispProgram # NULL
        /\ dx11.program[ShaderOf(log11.op)] = NULL
              => (~log11.ret /\ log11.dispatches = 0)

\* C20: once an effect key has a program, no later call with that key
\* compiles and the program of the key stays the same object; every
\* dispatch made with a program is made with the program of the key of
\* that call, and no two keys share a program object.
C20_OneProgramPerKey ==
    /\ []( (log11.op \in EffectOps /\ log11.dispatches > 0
                /\ log11.dispProgram # NULL)
           => log11.dispProgram = dx11.program[ShaderOf(log11.op)] )
    /\ []( \A k1 \in Effects11 : \A k2 \in Effects11 \ {k1} :
              dx11.program[k1] # NULL => dx11.program[k1] # dx11.program[k2] )
    /\ [][ \A k \in Effects11 :
              dx11.program[k] # NULL =>
                 /\ dx11'.program[k] = dx11.program[k]
                 /\ (log11'.op \in EffectOps /\ ShaderOf(log11'.op) = k)
                       => log11'.compiles = 0 ]_<<dx11, ctx11, log11>>

\* A Blur dispatched with the program cached by an earlier Blur, while
\* Copy and Adjust hold programs of their own.
C20_Witness ==
    /\ log11.op = "Blur" /\ log11.dispatches > 0 /\ log11.compiles = 0
    /\ log11.dispProgram = dx11.program["m_BlurHLSL"]
    /\ \A k \in Effects11 : dx11.program[k] # NULL
    /\ dx11.program["m_BlurHLSL"] # dx11.program["m_CopyHLSL"]

(***************************************************************************)
(* The shader resources                                                    *)
(***************************************************************************)

\* C21: UpdateResources and CreateShaderResources called with a null
\* destination texture, or left without a device, return false, go
\* through no null texture, device or context, and create no view and no
\* buffer.
C21_NullDestOrDeviceReturnsFalse ==
    ( /\ log11.op \in {"UpdateResources", "CreateShaderResources"}
      /\ log11.dest = NULL \/ dx11.m_pd3dDevice = NoDevice )
    => /\ ~log11.ret
       /\ ~log11.nullUse /\ ~ctx11.fault
       /\ log11.srvCreated = 0 /\ log11.uavCreated = 0 /\ log11.bufCreated = 0

(***************************************************************************)
(* The governor before the first utilisation sample                        *)
(***************************************************************************)

\* A call of the bridge completed a readback of the timing queries.
ReadbackDone(l) == l.readback \in {"normal", "excess"}

\* C22: a readback made while the priming thread has not published
\* m_GPUQueryReady, or while no utilisation above zero has been sampled,
\* neither increments m_nGPUex nor sets bGPUex, whatever the measured time;
\* and a utilisation above zero is held only after the publication and the
\* priming sample.
C22_NoExcessBeforeSample ==
    /\ [](dx9.m_GPUlatestUsage > 0
            => dx9.m_GPUQueryReady /\ dx9.m_GPUhasPrimedSample)
    /\ [][ ( /\ ReadbackDone(log9')
             /\ ~dx9'.m_GPUQueryReady \/ dx9'.m_GPUlatestUsage = 0 )
           => /\ dx9'.m_nGPUex = dx9.m_nGPUex
              /\ ~log9'.entered
              /\ dx9'.bGPUex => dx9.bGPUex ]_<<dx9, ctx9, log9>>

\* A readback of more than 4 ms before the publication, and one after it
\* with a sample of zero.
C22_Witness ==
    /\ ReadbackDone(log9)
    /\ dx9.m_GPUframeTime > ExcessTimeMs
    /\ ~dx9.m_GPUQueryReady
    /\ dx9.m_nGPUex = 0 /\ ~dx9.bGPUex

(***************************************************************************)
(* The priming thread                                                      *)
(***************************************************************************)

C24_SourceReleasedOnce ==
    log9.op = "CopyDX11shareHandle"
    => /\ log9.opened => log9.srcReleases = 1
       /\ ~log9.opened => log9.srcReleases = 0
       /\ log9.openFailed => ~log9.opened

\* The source was opened and no intermediate texture could be created.
C24_Witness ==
    /\ log9.op = "CopyDX11shareHandle"
    /\ log9.opened /\ ~log9.csCalled
    /\ dx9.m_dstTexture = NULL /\ dx9.m_senderFormat # "B8G8R8A8"
    /\ log9.srcReleases = 1

(***************************************************************************)
(* The views at the compute stage                                          *)
(***************************************************************************)

\* C25: in both engines the dispatch of a ComputeShader call runs with the
\* engine's views bound (they are bound before it), and when the call has
\* returned neither view is bound to the compute stage (they are unbound
\* after it).
C25_ViewsUnboundOnReturn ==
    /\ log9.dispatches > 0
       => /\ log9.dispSrv = dx9.m_srv /\ log9.dispUav = dx9.m_uav
          /\ log9.dispUav # NULL
          /\ ctx9.csSrv = NULL /\ ctx9.csUav = NULL
    /\ log11.dispatches > 0
       => /\ dx11.m_srv # NoView => log11.dispSrv = dx11.m_srv
          /\ log11.dispUav = dx11.m_uav
          /\ log11.dispUav # NoView
          /\ ctx11.csSrv = NoView /\ ctx11.csUav = NoView

\* A conversion and an effect that read a source have both dispatched.
C25_Witness ==
    /\ log9.dispatches = 1 /\ log9.dispSrv # NULL /\ ctx9.csSrv = NULL
    /\ log11.dispatches = 1 /\ log11.dispSrv # NoView /\ ctx11.csSrv = NoView

(***************************************************************************)
(* The flush at the end of ComputeShader                                   *)
(***************************************************************************)

BackendOrder(l, e) ==
    l.attempts # <<>>
    => LET n == Len(l.attempts)
       IN  /\ n <= Len(DriverTypes)
           /\ \A i \in 1..n : l.attempts[i] = DriverTypes[i]
           /\ \A i \in 1..(n - 1) : l.attempts[i] \notin l.works
           /\ IF l.works = {}
              THEN /\ n = Len(DriverTypes)
                   /\ l.driver = "none"
                   /\ e.m_pd3dDevice = NoDevice
              ELSE /\ l.attempts[n] \in l.works
                   /\ l.driver = l.attempts[n]
                   /\ e.m_pd3dDevice # NoDevice
                   /\ e.m_pd3dDevice.owner = "class"
                   /\ e.m_pImmediateContext = e.m_pd3dDevice

\* C27: CreateDX11device calls D3D11CreateDevice with hardware, WARP,
\* reference in this order, stops at the first type that succeeds, returns
\* the device of that type with its context in m_pImmediateContext, and
\* returns null only when all three calls failed; OpenDX11 of the effect
\* engine then returns false, and true otherwise.
C27_BackendsInOrder ==
    /\ BackendOrder(log9, dx9)
    /\ BackendOrder(log11, dx11)
    /\ log11.op = "OpenDX11" /\ log11.attempts # <<>>
       => (log11.ret <=> log11.works # {})

\* Hardware failed and WARP was taken although reference would work, in
\* one engine; all three failed in the other.
C27_Witness ==
    /\ log9.attempts = <<"hardware", "warp">>
    /\ log9.works = {"warp", "reference"} /\ log9.driver = "warp"
    /\ log11.attempts = DriverTypes /\ log11.works = {}
    /\ dx11.m_pd3dDevice = NoDevice

(***************************************************************************)
(* The timing measurement                                                  *)
(***************************************************************************)

\* The test of StartGPUtiming and EndGPUtiming on the state at call entry.
TimingDue(l) ==
    /\ ~l.exAtEntry
    /\ ~l.pendingAtEntry
    /\ l.frameAtEntry > StabilizeFrames
    /\ l.frameAtEntry % TimingPeriod = 0

\* C28 as stated: a ComputeShader call issues a timing measurement, start
\* and end, if and only if at its entry the engine is not throttled, no
\* readback is pending, and the frame counter is above 60 and a multiple
\* of 120.
C28_MeasuredIffDue ==
    log9.csCalled => ((log9.timingStart /\ log9.timingEnd) <=> TimingDue(log9))

\* C28, amended: the same of the calls that reach the dispatch; a call that
\* returns before it measures nothing.  Start and end come in the same
\* call, never in the first 61 frames and never with a readback pending.
C28_MeasuredIffDueAndDispatched ==
    log9.csCalled
    => /\ log9.timingStart <=> log9.timingEnd
       /\ log9.timingStart <=> (log9.dispatches = 1 /\ TimingDue(log9))
       /\ log9.timingStart => /\ log9.frameAtEntry > StabilizeFrames
                              /\ ~log9.pendingAtEntry
       /\ log9.timingStart => dx9.m_readPending \/ ReadbackDone(log9)

\* The second measurement, after the first has been read back.
C28_Witness ==
    /\ log9.timingStart /\ log9.timingEnd
    /\ log9.frameAtEntry = 2 * TimingPeriod
    /\ log9.rbLast.done

(***************************************************************************)
(* The readback of a measurement                                           *)
(***************************************************************************)

\* A call read the timing queries, whatever they returned.
ReadbackAttempted(l) == l.readback # "none"

\* The first part of C29: the queries are read only with a measurement
\* pending whose end timestamp is at least 8 frames old, and not in the
\* call that issued it.
ReadbackNotEarly ==
    /\ ReadbackAttempted(log9)
       => /\ log9.pendingAtEntry
          /\ log9.frameAtEntry >= dx9.m_frameEnd + ReadDelay
    /\ log9.timingEnd
       => /\ ~ReadbackAttempted(log9)
          /\ dx9.m_frameEnd = log9.frameAtEntry
          /\ dx9.m_readPending

C30_BufferCreatedOnce ==
    /\ [][dx11.m_pShaderBuffer # NULL
            => /\ dx11'.m_pShaderBuffer # NULL
               /\ log11'.bufCreated = 0]_<<dx11, ctx11, log11>>
    /\ [][dx9.m_pShaderBuffer # NULL
            => /\ dx9'.m_pShaderBuffer # NULL
               /\ log9'.bufCreated = 0]_<<dx9, ctx9, log9>>

(***************************************************************************)
(* The read-view of an effect without a source                             *)
(***************************************************************************)

\* C31: at the dispatch of an effect call of spoutDXshaders a read-view is
\* held and bound exactly when the call was given a source texture; an
\* effect without a source that follows an effect with one dispatches with
\* no read-view.
C31_ReadViewIffSource ==
    log11.dispatches > 0
    => /\ (log11.dispSrv # NoView) <=> (log11.source # NULL)
       /\ (dx11.m_srv # NoView) <=> (log11.source # NULL)

(***************************************************************************)
(* The governor after a recovery                                           *)
(***************************************************************************)

\* Measuring: not throttled, no excess counted, nothing pending, no
\* recovery level set.
Measuring(e) ==
    /\ ~e.bGPUex
    /\ e.m_nGPUex = 0
    /\ ~e.m_readPending
    /\ e.m_GPUrecovery = 0

\* C32: the call that clears bGPUex leaves the governor in Measuring, at a
\* frame that is a multiple of 120, counted; from there a dispatching call
\* measures exactly at the frames that are multiples of 120, the first of
\* them 120 frames after the recovery; m_nGPUex grows only by one per
\* excess readback, and bGPUex is set again only by an excess readback
\* that finds one excess already counted.
C32_RecoveryRestartsMeasuring ==
    /\ [](log9.cleared
            => /\ Measuring(dx9)
               /\ log9.frameAtEntry % TimingPeriod = 0
               /\ dx9.m_frameCount = log9.frameAtEntry + 1)
    /\ [](dx9.bGPUex => dx9.m_nGPUex = 0 /\ ~dx9.m_readPending)
    /\ [][ /\ dx9'.m_nGPUex > dx9.m_nGPUex
              => /\ dx9'.m_nGPUex = dx9.m_nGPUex + 1
                 /\ log9'.readback = "excess"
           /\ ~dx9.bGPUex /\ dx9'.bGPUex
              => /\ dx9.m_nGPUex = 1
                 /\ log9'.readback = "excess"
           /\ ( /\ ~dx9.bGPUex /\ ~dx9.m_readPending
                /\ dx9'.m_frameCount = dx9.m_frameCount + 1 )
              => (log9'.timingStart
                    <=> /\ dx9.m_frameCount > StabilizeFrames
                        /\ dx9.m_frameCount % TimingPeriod = 0)
         ]_<<dx9, ctx9, log9>>

\* The first measurement after a recovery: the last two readbacks were
\* excess ones, the engine was throttled by the second, and it measures
\* again, unthrottled and with nothing counted.
C32_Witness ==
    /\ log9.timingStart /\ log9.timingEnd
    /\ log9.rbPrev.excess /\ log9.rbLast.excess
    /\ ~dx9.bGPUex /\ dx9.m_nGPUex = 0
    /\ log9.frameAtEntry = 6 * TimingPeriod

(***************************************************************************)
(* After a failed device creation                                          *)
(***************************************************************************)

\* The call logged in l tried the three driver types and all failed.
AllFailed(l) == l.attempts = DriverTypes /\ l.driver = "none"

\* C33: after a call in which all three driver types failed the engine
\* holds no device and no context, OpenDX11 of the effect engine has
\* returned false, and the next call of the engine, whichever it is, does
\* not call D3D11CreateDevice again.
C33_FailureIsPermanent ==
    /\ [](AllFailed(log9)
            => dx9.m_pd3dDevice = NoDevice /\ dx9.m_pImmediateContext = NoDevice)
    /\ [](AllFailed(log11) /\ log11.op = "OpenDX11"
            => ~log11.ret /\ dx11.m_pd3dDevice = NoDevice)
    /\ [][AllFailed(log9) => log9'.attempts = <<>>]_<<dx9, ctx9, log9>>
    /\ [][AllFailed(log11) => log11'.attempts = <<>>]_<<dx11, ctx11, log11>>

(***************************************************************************)
(* The write-view of a conversion                                          *)
(***************************************************************************)

\* C34: the write-view bound at the dispatch of a conversion is a view of
\* the intermediate texture the engine holds at that time, the texture
\* passed to the dispatch and whose share handle the call returns; a view
\* of an intermediate texture that has been replaced is not used.
C34_WriteViewOfCurrentTexture ==
    (log9.op = "CopyDX11shareHandle" /\ log9.dispatches > 0)
    => /\ log9.dispUav = log9.dispDst
       /\ log9.dispUav = dx9.m_dstTexture
       /\ log9.shExtract /\ log9.ret # NULL
          => log9.ret = DstShareHandle(log9.dispUav)

(***************************************************************************)
(* Resources across a change of device                                     *)
(***************************************************************************)

\* C35: every dispatch of spoutDX9shaders uses views, a parameter buffer,
\* a program and an intermediate texture that were created on the device
\* the engine holds at that dispatch, and a measurement uses timer queries
\* of that device; nothing created on a device that CloseDX11 released is
\* used after another device has been acquired.
C35_NoResourceOfReleasedDevice ==
    log9.dispatches > 0
    => /\ \A k \in DOMAIN ctx9.madeOn : ctx9.madeOn[k] = dx9.m_pd3dDevice.id
       /\ log9.timingStart => dx9.m_gpuTimer = dx9.m_pd3dDevice.id

(***************************************************************************)
(* The parameter buffer at a dispatch                                      *)
(***************************************************************************)

\* C36: at every dispatch of at least one thread group (width and height
\* of the call at least 1) the parameter buffer holds the payload of that
\* call: value1..value4, width and height for an effect of spoutDXshaders,
\* width and height for a conversion of spoutDX9shaders, whatever effects,
\* releases and re-creations of the buffer came before.
C36_BufferHoldsPayload ==
    /\ log11.dispatches > 0 /\ log11.payload.width >= 1 /\ log11.payload.height >= 1
       => ctx11.cbuf = log11.payload
    /\ log9.dispatches > 0 /\ log9.payload.width >= 1 /\ log9.payload.height >= 1
       => ctx9.cbuf = log9.payload

\* An effect dispatched with a buffer that an earlier call created and
\* filled with other parameters.
C36_Witness ==
    /\ log11.dispatches > 0
    /\ log11.bufCreated = 0
    /\ ~log11.repeat
    /\ log11.payload.value1 = 0 /\ log11.payload.value2 = 1
    /\ log11.payload.width = 2
    /\ ctx11.cbuf = log11.payload

(***************************************************************************)
(* The pending readback                                                    *)
(***************************************************************************)

\* C37: when a measurement is pending readback and the application keeps
\* calling, unthrottled and with the results of the queries available,
\* the readback stops being pending in time for the measurement of the
\* next period to be issued, also when the timestamps were reported
\* disjoint: no readback is pending for more than a period of frames.
C37_PendingClearedWithinPeriod ==
    dx9.m_readPending => dx9.m_frameCount - dx9.m_frameEnd <= TimingPeriod

\* The same for the measurements whose timestamps are not disjoint: they
\* are read, and stop being pending, in the call ReadDelay frames later.
ValidPendingCleared ==
    (dx9.m_readPending /\ ~(ctx9.q.st = "done" /\ ctx9.q.disjoint))
    => dx9.m_frameCount - dx9.m_frameEnd <= ReadDelay

\* Once the queries have answered with disjoint timestamps, the readback
\* stays pending and StartGPUtiming never issues the queries again.
DisjointBlocksTiming ==
    [][(dx9.m_readPending /\ ctx9.q.st = "done" /\ ctx9.q.disjoint)
       => (dx9'.m_readPending /\ ctx9'.q = ctx9.q /\ ~log9'.timingStart)]_<<dx9, ctx9, log9>>

(***************************************************************************)
(* Destruction of spoutDX9shaders                                          *)
(***************************************************************************)

\* C38: when a spoutDX9shaders engine has been destroyed, it holds none of
\* the resources it allocated: the views, the parameter buffer, the
\* intermediate texture, the copy program and the timer queries have been
\* released (their members are null), and a device the engine created has
\* been released together with its context.
C38_NothingHeldAfterDestruction ==
    ctx9.destroyed
    => /\ dx9.m_srv = NULL /\ dx9.m_uav = NULL
       /\ dx9.m_pShaderBuffer = NULL /\ dx9.m_dstTexture = NULL
       /\ dx9.m_CopyProgram = NULL
       /\ dx9.m_gpuTimer = NoDevice.id
       /\ dx9.m_pd3dDevice.owner # "class"
       /\ dx9.m_pImmediateContext.owner # "class"

\* What the destructor does release: the views, the buffer, the texture,
\* and the class device with its context.
DestructorReleases ==
    ctx9.destroyed
    => /\ dx9.m_srv = NULL /\ dx9.m_uav = NULL
       /\ dx9.m_pShaderBuffer = NULL /\ dx9.m_dstTexture = NULL
       /\ dx9.m_pd3dDevice.owner # "class"
       /\ dx9.m_pImmediateContext.owner # "class"

(***************************************************************************)
(* The priming thread and the calling thread                               *)
(***************************************************************************)

\* C39: the calling thread and the priming thread never access the same
\* non-atomic member concurrently: the thread writes the query handle, the
\* counter handle and the primed-sample flag only before it stores true to
\* m_GPUQueryReady, the caller reads or writes them only after a load of
\* m_GPUQueryReady that returned true, and the thread is finished once it
\* has stored the flag.
C39_PublishedBeforeRead ==
    /\ ctx9.sync.unordered = {}
    /\ ctx9.sync.stored => ctx9.sync.written = Published /\ ctx9.sync.pub = Published
    /\ ctx9.sync.accessed # {} => ctx9.sync.seen
    /\ ctx9.sync.mon # "out" => ctx9.sync.seen
    /\ ctx9.sync.seen => dx9.m_GPUQueryReady
    /\ ctx9.sync.stored <=> ctx9.primer = "done"
    /\ dx9.m_GPUQueryReady <=> ctx9.sync.stored

\* The caller has read the query handle, the primed-sample flag and the
\* counter handle that the thread published.
C39_Witness ==
    /\ ctx9.primer = "done"
    /\ ctx9.sync.accessed = {"m_GPUquery", "m_GPUhasPrimedSample", "m_GPUcounter"}
    /\ ctx9.sync.mon = "out"

\* C40: the detached priming thread reads or writes no member of a
\* spoutDX9shaders object that has been destroyed, at whatever point of the
\* thread's sequence (its Sleep(100) included) the destructor runs.
C40_ThreadLeavesDestroyedEngine ==
    ctx9.sync.dangling = {}

\* A destructor that runs when no thread is between its start and its
\* last statement is followed by no access of the thread.
QuietThreadIsSafe ==
    [][(ctx9'.destroyed /\ ~ctx9.destroyed /\ ctx9.primer \in {"none", "failed", "done"})
       => ctx9'.sync.dangling = {} /\ ctx9'.primer = ctx9.primer]_<<dx9, ctx9, log9>>

=============================================================================
